---- MODULE Spec2Model ----
(***************************************************************************)
(* Model of ccsessionctl: the UiState view-state engine (src/ui/state.rs)  *)
(* and the App event handlers that drive it (src/ui/app.rs).               *)
(*                                                                         *)
(* Conventions                                                             *)
(*  - A Rust String is a sequence of one-character strings, <<"a","B">>.   *)
(*  - Option<T> is a sequence of length 0 (None) or 1 (Some(x)).           *)
(*  - Vec indices (cursor, filtered_indices, selected) are 0-based as in   *)
(*    the source; At(v, i) reads element i of a Vec.                       *)
(*  - Timestamps are integers counted in half days (DayLen units a day).   *)
(*  - The preview_* fields of UiState are kept in the variable preview,    *)
(*    the other fields in state; parse holds one run of a file scan of     *)
(*    src/session/parser.rs, call one call of a function on its own.       *)
(*  - A character outside ASCII is written by its code point, "U+00E9".    *)
(***************************************************************************)
EXTENDS Integers, Sequences, FiniteSets, TLC

VARIABLES state, table_state, should_quit, needs_refresh, pc, disk, now,
          preview, parse, call

vars == <<state, table_state, should_quit, needs_refresh, pc, disk, now,
          preview, parse, call>>

\* ------------------------------------------------------------------ bounds
\* number of session files in the catalog
MaxSessions == 2
\* number of clock ticks after start
MaxTicks == 1

\* ------------------------------------------------------------ Option, Vec
None == <<>>

Some(x) == <<x>>

IsSome(o) == Len(o) = 1

Unwrap(o) == o[1]

At(v, i) == v[i + 1]

Range(v) == {v[k] : k \in 1..Len(v)}

Min(a, b) == IF a < b THEN a ELSE b

\* usize::saturating_sub
saturating_sub(a, b) == IF a >= b THEN a - b ELSE 0

\* ---------------------------------------------------------------- strings
Chars == {" ", "A", "B", "a", "b"}

\* byte value order of the characters (ASCII)
Ord(c) == CASE c = " " -> 32 [] c = "A" -> 65 [] c = "B" -> 66
            [] c = "a" -> 97 [] c = "b" -> 98

LowerChar(c) ==
    CASE c = "A" -> "a" [] c = "B" -> "b"
      [] c = "C" -> "c" [] c = "D" -> "d" [] c = "E" -> "e" [] c = "F" -> "f"
      [] c = "G" -> "g" [] c = "H" -> "h" [] c = "I" -> "i" [] c = "J" -> "j"
      [] c = "K" -> "k" [] c = "L" -> "l" [] c = "M" -> "m" [] c = "N" -> "n"
      [] c = "O" -> "o" [] c = "P" -> "p" [] c = "Q" -> "q" [] c = "R" -> "r"
      [] c = "S" -> "s" [] c = "T" -> "t" [] c = "U" -> "u" [] c = "V" -> "v"
      [] c = "W" -> "w" [] c = "X" -> "x" [] c = "Y" -> "y" [] c = "Z" -> "z"
      [] OTHER -> c

\* the characters outside ASCII: e with acute accent, the wrench and
\* thought balloon signs
EAcute == "U+00E9"

Wrench == "U+1F527"

ThoughtBalloon == "U+1F4AD"

Clipboard == "U+1F4CB"

\* str::to_lowercase
to_lowercase(s) == [k \in 1..Len(s) |-> LowerChar(s[k])]

\* str::contains(&str)
contains(hay, needle) ==
    \E k \in 0..(Len(hay) - Len(needle)) :
        SubSeq(hay, k + 1, k + Len(needle)) = needle

\* Ord for str: lexicographic by bytes; "Less" | "Equal" | "Greater"
RECURSIVE str_cmp(_, _)
str_cmp(a, b) ==
    IF a = <<>> /\ b = <<>> THEN "Equal"
    ELSE IF a = <<>> THEN "Less"
    ELSE IF b = <<>> THEN "Greater"
    ELSE IF Ord(Head(a)) < Ord(Head(b)) THEN "Less"
    ELSE IF Ord(Head(a)) > Ord(Head(b)) THEN "Greater"
    ELSE str_cmp(Tail(a), Tail(b))

\* Ord for integers (u64, DateTime)
int_cmp(a, b) == IF a < b THEN "Less" ELSE IF a > b THEN "Greater" ELSE "Equal"

\* Ordering::reverse
reverse(c) == CASE c = "Less" -> "Greater" [] c = "Greater" -> "Less" [] OTHER -> "Equal"

\* ------------------------------------------------- session files on disk
\* The files a scan can find: path p in 1..MaxSessions, attributes by table.
\* A path keeps its attributes for its whole life (the tables repeat with
\* period 5 for larger catalogs).
Paths == 1..MaxSessions

Slot(p) == ((p - 1) % 5) + 1

FileProject(p) ==
    << <<"A","b">>, <<"a">>, <<"A","b">>, <<"b">>, <<"a">> >>[Slot(p)]

FileId(p) == << <<"a">>, <<"B">>, <<"B">>, <<"a","a">>, <<"b","a">> >>[Slot(p)]

FileSize(p) == <<2, 2, 1, 3, 1>>[Slot(p)]

\* mtime, in half days
FileModified(p) == <<-55, 4, 4, 6, -54>>[Slot(p)]

\* whether File::open succeeds on the session file
FileReadable(p) == Slot(p) # 2

\* whether fs::remove_file succeeds on the session file
FileDeletable(p) == Slot(p) # 1

\* what a metadata scan of the file extracts (src/session/parser.rs)
FileSummary(p) ==
    << None, Some(<<"a">>), Some(<<"a">>), None, Some(<<"B"," ","a">>) >>[Slot(p)]

FileFirstMessage(p) ==
    << Some(<<"B">>), Some(<<"b">>), Some(<<"a","B">>), None, None >>[Slot(p)]

\* all_content.join(" ") before lowercasing
FileContent(p) ==
    << <<"B">>, <<"a"," ","b">>, <<"a"," ","a","B">>, <<>>, <<"B"," ","a">> >>[Slot(p)]

\* clock at program start, half days per day
StartNow == 5

DayLen == 2

\* Session::new
Session_new(p) ==
    [ path |-> p, id |-> FileId(p), project |-> FileProject(p),
      size_bytes |-> FileSize(p), modified |-> FileModified(p),
      summary |-> None, first_message |-> None, search_content |-> None ]

\* load_session_metadata: Err (the file cannot be opened) leaves the session
\* untouched, Ok overwrites the derived fields; files is what is on disk
load_session_metadata(s, files) ==
    IF s.path \notin files \/ ~FileReadable(s.path) THEN s
    ELSE [s EXCEPT !.summary = FileSummary(s.path),
                   !.first_message = FileFirstMessage(s.path),
                   !.search_content = Some(to_lowercase(FileContent(s.path)))]

\* chrono Duration::num_days: whole days, truncated toward zero
num_days(d) == IF d >= 0 THEN d \div DayLen ELSE -((-d) \div DayLen)

\* insert_sorted keeping one element of each group of equal keys
RECURSIVE insert_sorted_drop_ties(_, _, _)
insert_sorted_drop_ties(x, sorted, ord) ==
    IF sorted = <<>> THEN <<x>>
    ELSE IF ord[x, Head(sorted)] = "Less" THEN <<x>> \o sorted
    ELSE IF ord[x, Head(sorted)] = "Equal" THEN sorted
    ELSE <<Head(sorted)>> \o insert_sorted_drop_ties(x, Tail(sorted), ord)

\* --------------------------------------------------------- stable sorting
\* slice::sort_by is a stable sort. The comparator is tabulated over the
\* elements (ord[a, b] is its Ordering) and the elements are inserted one
\* by one, each behind the elements it does not precede.
RECURSIVE insert_sorted(_, _, _)
insert_sorted(x, sorted, ord) ==
    IF sorted = <<>> THEN <<x>>
    ELSE IF ord[x, Head(sorted)] = "Less" THEN <<x>> \o sorted
    ELSE <<Head(sorted)>> \o insert_sorted(x, Tail(sorted), ord)

RECURSIVE sort_from(_, _, _)
sort_from(v, acc, ord) ==
    IF v = <<>> THEN acc
    ELSE sort_from(Tail(v), insert_sorted(Head(v), acc, ord), ord)

sort_by(v, cmp(_, _)) ==
    sort_from(v, <<>>, [a \in Range(v), b \in Range(v) |-> cmp(a, b)])

\* Vec::dedup: drops consecutive repeats
RECURSIVE dedup(_)
dedup(v) ==
    IF Len(v) <= 1 THEN v
    ELSE IF v[1] = v[2] THEN dedup(Tail(v))
    ELSE <<v[1]>> \o dedup(Tail(v))

\* get_project_names
get_project_names(sessions) ==
    dedup(sort_by([k \in 1..Len(sessions) |-> sessions[k].project], str_cmp))

\* ------------------------------------------------ UiState (src/ui/state.rs)
SortFields == {"Date", "Size", "Project", "Name"}

\* SortField::next
SortField_next(f) ==
    CASE f = "Date" -> "Size" [] f = "Size" -> "Project"
      [] f = "Project" -> "Name" [] f = "Name" -> "Date"

\* a status line: what it reports, and the count it shows (0 when none)
Status(kind, n) == [kind |-> kind, n |-> n]

\* Filter::default
Filter_default == [query |-> <<>>, project |-> None, age_days |-> None]

\* UiState::new
UiState_new(sessions) ==
    [ view |-> "List",
      sessions |-> sessions,
      filtered_indices |-> [k \in 1..Len(sessions) |-> k - 1],
      cursor |-> 0,
      scroll_offset |-> 0,
      selected |-> {},
      filter |-> Filter_default,
      dialog_message |-> None,
      dialog_action |-> None,
      status_message |-> None,
      projects |-> get_project_names(sessions),
      project_filter_index |-> 0,
      sort_field |-> "Date",
      sort_reversed |-> FALSE ]

\* UiState::current_session_index: filtered_indices.get(cursor).copied()
current_session_index(st) ==
    IF st.cursor < Len(st.filtered_indices)
    THEN Some(At(st.filtered_indices, st.cursor)) ELSE None

\* UiState::current_session: the index is looked up with Vec::get
current_session(st) ==
    IF IsSome(current_session_index(st))
       /\ Unwrap(current_session_index(st)) < Len(st.sessions)
    THEN Some(At(st.sessions, Unwrap(current_session_index(st)))) ELSE None

visible_height == 20

\* UiState::adjust_scroll
adjust_scroll(st) ==
    IF st.cursor < st.scroll_offset
    THEN [st EXCEPT !.scroll_offset = st.cursor]
    ELSE IF st.cursor >= st.scroll_offset + visible_height
    THEN [st EXCEPT !.scroll_offset = st.cursor - visible_height + 1]
    ELSE st

cursor_up(st) ==
    IF st.cursor > 0
    THEN adjust_scroll([st EXCEPT !.cursor = st.cursor - 1]) ELSE st

\* cursor_down wrapping from the last row to the first
cursor_down_wrap(st) ==
    IF st.filtered_indices = <<>> THEN st
    ELSE adjust_scroll([st EXCEPT !.cursor =
                          (st.cursor + 1) % Len(st.filtered_indices)])

cursor_down(st) ==
    IF st.cursor + 1 < Len(st.filtered_indices)
    THEN adjust_scroll([st EXCEPT !.cursor = st.cursor + 1]) ELSE st

cursor_top(st) == [st EXCEPT !.cursor = 0, !.scroll_offset = 0]

cursor_bottom(st) ==
    IF st.filtered_indices # <<>>
    THEN adjust_scroll([st EXCEPT !.cursor = Len(st.filtered_indices) - 1])
    ELSE st

page_up(st, page_size) ==
    adjust_scroll([st EXCEPT !.cursor = saturating_sub(st.cursor, page_size)])

page_down(st, page_size) ==
    adjust_scroll([st EXCEPT !.cursor =
        Min(st.cursor + page_size, saturating_sub(Len(st.filtered_indices), 1))])

toggle_selection(st) ==
    IF IsSome(current_session_index(st))
    THEN LET idx == Unwrap(current_session_index(st)) IN
         IF idx \in st.selected
         THEN [st EXCEPT !.selected = st.selected \ {idx}]
         ELSE [st EXCEPT !.selected = st.selected \cup {idx}]
    ELSE st

\* select_all over the whole collection
select_all_collection(st) ==
    [st EXCEPT !.selected = st.selected \cup (0..(Len(st.sessions) - 1))]

select_all(st) ==
    [st EXCEPT !.selected = st.selected \cup Range(st.filtered_indices)]

clear_selection(st) == [st EXCEPT !.selected = {}]

\* filter_closure comparing the query as typed, without to_lowercase
filter_closure_case_sensitive(session, filter, t) ==
    IF IsSome(filter.project) /\ session.project # Unwrap(filter.project)
    THEN FALSE
    ELSE IF IsSome(filter.age_days)
            /\ num_days(t - session.modified) < Unwrap(filter.age_days)
    THEN FALSE
    ELSE IF filter.query # <<>>
    THEN IF IsSome(session.search_content)
         THEN contains(Unwrap(session.search_content), filter.query)
         ELSE contains(
                to_lowercase(session.project \o <<" ">> \o session.id \o <<" ">>
                    \o (IF IsSome(session.summary) THEN Unwrap(session.summary) ELSE <<>>)
                    \o <<" ">>
                    \o (IF IsSome(session.first_message)
                        THEN Unwrap(session.first_message) ELSE <<>>)),
                filter.query)
    ELSE TRUE

\* the filter closure of apply_filters, with its early returns; t is Utc::now()
filter_closure(session, filter, t) ==
    IF IsSome(filter.project) /\ session.project # Unwrap(filter.project)
    THEN FALSE
    ELSE IF IsSome(filter.age_days)
            /\ num_days(t - session.modified) < Unwrap(filter.age_days)
    THEN FALSE
    ELSE IF to_lowercase(filter.query) # <<>>
    THEN IF IsSome(session.search_content)
         THEN contains(Unwrap(session.search_content), to_lowercase(filter.query))
         ELSE contains(
                to_lowercase(session.project \o <<" ">> \o session.id \o <<" ">>
                    \o (IF IsSome(session.summary) THEN Unwrap(session.summary) ELSE <<>>)
                    \o <<" ">>
                    \o (IF IsSome(session.first_message)
                        THEN Unwrap(session.first_message) ELSE <<>>)),
                to_lowercase(filter.query))
    ELSE TRUE

\* sessions.iter().enumerate().filter(..).map(|(idx, _)| idx).collect(), from idx on
RECURSIVE filter_collect(_, _, _, _)
filter_collect(sessions, idx, filter, t) ==
    IF idx >= Len(sessions) THEN <<>>
    ELSE (IF filter_closure(At(sessions, idx), filter, t) THEN <<idx>> ELSE <<>>)
         \o filter_collect(sessions, idx + 1, filter, t)

\* clamp_cursor without the reset: the cursor stays where it was
clamp_cursor_none(st) == st

\* the cursor reset shared by apply_filters and apply_sort
clamp_cursor(st) ==
    IF st.cursor >= Len(st.filtered_indices)
    THEN [st EXCEPT !.cursor = saturating_sub(Len(st.filtered_indices), 1)]
    ELSE st

\* apply_filters collecting positions of the list shown so far instead of
\* indices of the collection
apply_filters_positions(st, t) ==
    LET fi == st.filtered_indices
        pos[k \in 0..Len(fi)] ==
            IF k >= Len(fi) THEN <<>>
            ELSE (IF filter_closure(At(st.sessions, At(fi, k)), st.filter, t)
                  THEN <<k>> ELSE <<>>) \o pos[k + 1]
    IN [clamp_cursor([st EXCEPT !.filtered_indices = pos[0]])
          EXCEPT !.scroll_offset = 0]

\* apply_filters dropping the selected sessions that the filter hides
apply_filters_prune_selected(st, t) ==
    LET shown == filter_collect(st.sessions, 0, st.filter, t) IN
    [clamp_cursor([st EXCEPT !.filtered_indices = shown,
                             !.selected = st.selected \cap Range(shown)])
        EXCEPT !.scroll_offset = 0]

apply_filters(st, t) ==
    [clamp_cursor([st EXCEPT !.filtered_indices =
                      filter_collect(st.sessions, 0, st.filter, t)])
        EXCEPT !.scroll_offset = 0]

\* cycle_project_filter cycling over the projects only, without the All entry
cycle_project_filter_no_sentinel(st, t) ==
    LET i == (st.project_filter_index + 1) % Len(st.projects) IN
    apply_filters(
        [st EXCEPT !.project_filter_index = i,
                   !.filter.project =
                        IF i = 0 THEN None ELSE Some(At(st.projects, i - 1))],
        t)

cycle_project_filter(st, t) ==
    LET i == (st.project_filter_index + 1) % (Len(st.projects) + 1) IN
    apply_filters(
        [st EXCEPT !.project_filter_index = i,
                   !.filter.project =
                        IF i = 0 THEN None ELSE Some(At(st.projects, i - 1))],
        t)

\* the name key of the Name sort
sort_name(session) ==
    IF IsSome(session.summary) THEN Unwrap(session.summary)
    ELSE IF IsSome(session.first_message) THEN Unwrap(session.first_message)
    ELSE <<>>

\* the comparator of apply_sort without the reversal
sort_closure_unreversed(sessions, sort_field, reversed, a, b) ==
    CASE sort_field = "Date" ->
           int_cmp(At(sessions, b).modified, At(sessions, a).modified)
      [] sort_field = "Size" ->
           int_cmp(At(sessions, b).size_bytes, At(sessions, a).size_bytes)
      [] sort_field = "Project" ->
           str_cmp(At(sessions, a).project, At(sessions, b).project)
      [] sort_field = "Name" ->
           str_cmp(sort_name(At(sessions, a)), sort_name(At(sessions, b)))

\* the comparator closure of apply_sort on two collection indices
sort_closure(sessions, sort_field, reversed, a, b) ==
    LET cmp == CASE sort_field = "Date" ->
                      int_cmp(At(sessions, b).modified, At(sessions, a).modified)
                 [] sort_field = "Size" ->
                      int_cmp(At(sessions, b).size_bytes, At(sessions, a).size_bytes)
                 [] sort_field = "Project" ->
                      str_cmp(At(sessions, a).project, At(sessions, b).project)
                 [] sort_field = "Name" ->
                      str_cmp(sort_name(At(sessions, a)), sort_name(At(sessions, b)))
    IN IF reversed THEN reverse(cmp) ELSE cmp

apply_sort(st) ==
    LET cmp(a, b) == sort_closure(st.sessions, st.sort_field, st.sort_reversed, a, b)
    IN clamp_cursor([st EXCEPT !.filtered_indices = sort_by(st.filtered_indices, cmp)])

set_status(st, msg) == [st EXCEPT !.status_message = Some(msg)]

clear_status(st) == [st EXCEPT !.status_message = None]

cycle_sort_field(st) ==
    set_status(apply_sort([st EXCEPT !.sort_field = SortField_next(st.sort_field)]),
               Status("Sort", 0))

toggle_sort_direction(st) ==
    set_status(apply_sort([st EXCEPT !.sort_reversed = ~st.sort_reversed]),
               Status("Sort", 0))

show_confirm(st, message, action) ==
    [st EXCEPT !.dialog_message = Some(message),
               !.dialog_action = Some(action),
               !.view = "Confirm"]

\* variant: closing the dialog also drops the selection
clear_dialog_drop_selection(st) ==
    [st EXCEPT !.dialog_message = None, !.dialog_action = None, !.view = "List",
               !.selected = {}]

clear_dialog(st) ==
    [st EXCEPT !.dialog_message = None, !.dialog_action = None, !.view = "List"]

\* Vec::remove taking the element after idx
Vec_remove_next(v, idx) == SubSeq(v, 1, idx + 1) \o SubSeq(v, idx + 3, Len(v))

\* Vec::remove(idx) for idx < len
Vec_remove(v, idx) == SubSeq(v, 1, idx) \o SubSeq(v, idx + 2, Len(v))

\* indices_vec without reverse(): ascending order
RECURSIVE indices_vec_ascending(_)
indices_vec_ascending(indices) ==
    IF indices = {} THEN <<>>
    ELSE LET m == CHOOSE x \in indices : \A y \in indices : x <= y
         IN <<m>> \o indices_vec_ascending(indices \ {m})

\* indices.iter().copied().collect(); sort(); reverse()
RECURSIVE indices_vec(_)
indices_vec(indices) ==
    IF indices = {} THEN <<>>
    ELSE LET m == CHOOSE x \in indices : \A y \in indices : y <= x
         IN <<m>> \o indices_vec(indices \ {m})

\* the removal loop of remove_sessions
RECURSIVE remove_loop(_, _)
remove_loop(sessions, iv) ==
    IF iv = <<>> THEN sessions
    ELSE remove_loop(
            IF Head(iv) < Len(sessions) THEN Vec_remove(sessions, Head(iv))
            ELSE sessions,
            Tail(iv))

\* remove_sessions without the call of apply_filters
remove_sessions_no_refilter(st, indices, t) ==
    LET removed == [st EXCEPT !.sessions = remove_loop(st.sessions, indices_vec(indices)),
                              !.selected = {}]
    IN [removed EXCEPT !.projects = get_project_names(removed.sessions)]

\* remove_sessions without selected.clear()
remove_sessions_keep_selected(st, indices, t) ==
    LET removed == [st EXCEPT !.sessions = remove_loop(st.sessions, indices_vec(indices))]
        refiltered == apply_filters(removed, t)
    IN [refiltered EXCEPT !.projects = get_project_names(refiltered.sessions)]

remove_sessions(st, indices, t) ==
    LET removed == [st EXCEPT !.sessions = remove_loop(st.sessions, indices_vec(indices)),
                              !.selected = {}]
        refiltered == apply_filters(removed, t)
    IN [refiltered EXCEPT !.projects = get_project_names(refiltered.sessions)]

\* ------------------------------ session records (src/session/types.rs)
\* A line of a session file is a record
\*   raw       "invalid" (not UTF-8, lines() yields Err), "empty",
\*             "garbage" (no JSON value) or "json"
\*   tag       the string of its "type" member, None when it has none
\*   fits      whether its members decode into the struct of that tag
\*   text      summary / customTitle string
\*   timestamp Option of the timestamp member
\*   content   the message content
NoContent == [kind |-> "None", text |-> <<>>, blocks |-> <<>>]

\* MessageContent::Text(s) and MessageContent::Structured(blocks)
Text(s) == [kind |-> "Text", text |-> s, blocks |-> <<>>]

Structured(blocks) == [kind |-> "Structured", text |-> <<>>, blocks |-> blocks]

\* ContentBlock::Text { text } and ContentBlock::Other
TextBlock(s) == [type |-> "text", text |-> s]

OtherBlock == [type |-> "other", text |-> <<>>]

JsonLine(tag, fits, text, timestamp, content) ==
    [raw |-> "json", tag |-> tag, fits |-> fits, text |-> text,
     timestamp |-> timestamp, content |-> content]

EmptyLine ==
    [raw |-> "empty", tag |-> None, fits |-> FALSE, text |-> <<>>,
     timestamp |-> None, content |-> NoContent]

GarbageLine == [EmptyLine EXCEPT !.raw = "garbage"]

InvalidLine == [EmptyLine EXCEPT !.raw = "invalid"]

\* the tags of enum SessionRecord (kebab-case)
KnownTags ==
    {"summary", "custom-title", "file-history-snapshot", "user", "assistant",
     "system", "queue-operation"}

\* serde_json::from_str::<SessionRecord>: Some(record) is Ok, None is Err;
\* a tag outside KnownTags decodes to Unknown whatever the other members are
from_str(line) ==
    IF line.raw # "json" THEN None
    ELSE IF line.tag = None THEN None
    ELSE IF Unwrap(line.tag) \notin KnownTags
    THEN Some([line EXCEPT !.tag = Some("unknown")])
    ELSE IF ~line.fits THEN None
    ELSE Some(line)

\* [String]::join
RECURSIVE join(_, _)
join(strs, sep) ==
    IF strs = <<>> THEN <<>>
    ELSE IF Len(strs) = 1 THEN strs[1]
    ELSE strs[1] \o sep \o join(Tail(strs), sep)

\* ContentBlock::ToolUse { name, input }, ContentBlock::Thinking and
\* ContentBlock::ToolResult { content }
ToolUseBlock(name, input) == [type |-> "tool_use", name |-> name, input |-> input]

ToolResultBlock(content) == [type |-> "tool_result", content |-> content]

ThinkingBlock(s) == [type |-> "thinking", thinking |-> s]

\* a serde_json::Value: a string, a number, an array of values, or an object
\* with members (a key the object does not have is outside the domain of
\* members or maps to None)
JsonString(s) == [json |-> "string", s |-> s]

JsonNumber == [json |-> "number", s |-> <<>>]

PreviewKeys == {"command", "pattern", "file_path"}

JsonObject(members) == [json |-> "object", s |-> <<>>, members |-> members]

JsonArray(items) == [json |-> "array", s |-> <<>>, items |-> items]

\* Value::get(key)
Value_get(v, key) ==
    IF v.json = "object" /\ key \in DOMAIN v.members THEN v.members[key]
    ELSE None

\* Value::as_str
Value_as_str(v) == IF v.json = "string" THEN Some(v.s) ELSE None

\* Option::or
Option_or(a, b) == IF IsSome(a) THEN a ELSE b

ToolPreviewMax == 60

ToolPreviewKeep == 57

\* ContentBlock::as_text, ToolUse arm: let input_preview = ...
input_preview(input) ==
    LET found == IF input = None THEN None
                 ELSE Option_or(Option_or(Value_get(Unwrap(input), "command"),
                                          Value_get(Unwrap(input), "pattern")),
                                Value_get(Unwrap(input), "file_path"))
        str == IF found = None THEN None ELSE Value_as_str(Unwrap(found))
    IN IF str = None THEN <<>>
       ELSE IF Len(Unwrap(str)) > ToolPreviewMax
       THEN <<" ", "\"">> \o SubSeq(Unwrap(str), 1, ToolPreviewKeep)
                \o <<".", ".", ".", "\"">>
       ELSE <<" ", "\"">> \o Unwrap(str) \o <<"\"">>

\* variant: the cut keeps max_chars characters before the ellipsis
truncate_result_no_reserve(s, max_chars) ==
    IF Len(s) <= max_chars THEN s
    ELSE SubSeq(s, 1, max_chars) \o <<".", ".", ".">>

\* ContentBlock::truncate_result
truncate_result(s, max_chars) ==
    IF Len(s) <= max_chars THEN s
    ELSE SubSeq(s, 1, saturating_sub(max_chars, 3)) \o <<".", ".", ".">>

ToolResultMax == 200

ResultFallback == <<"(", "r", "e", "s", "u", "l", "t", ")">>

\* Value::as_array and Value::as_str on the payload
Value_as_array(v) == IF v.json = "array" THEN Some(v.items) ELSE None

\* arr.iter().filter_map(|item| item.get("text").and_then(|t| t.as_str()))
RECURSIVE filter_map_text(_)
filter_map_text(arr) ==
    IF arr = <<>> THEN <<>>
    ELSE LET t == Value_get(Head(arr), "text")
             str == IF t = None THEN None ELSE Value_as_str(Unwrap(t))
         IN (IF str = None THEN <<>> ELSE <<Unwrap(str)>>)
                \o filter_map_text(Tail(arr))

\* variant: an array without any string text gives the empty join
format_tool_result_join_empty(content) ==
    LET RECURSIVE texts_of(_)
        texts_of(arr) ==
            IF arr = <<>> THEN <<>>
            ELSE (IF Head(arr).json = "object"
                     /\ "text" \in DOMAIN Head(arr).members
                     /\ Head(arr).members["text"] # <<>>
                     /\ Head(arr).members["text"][1].json = "string"
                  THEN <<Head(arr).members["text"][1].s>> ELSE <<>>)
                     \o texts_of(Tail(arr))
        RECURSIVE joined(_)
        joined(strs) ==
            IF strs = <<>> THEN <<>>
            ELSE IF Len(strs) = 1 THEN strs[1]
            ELSE strs[1] \o <<"\n">> \o joined(Tail(strs))
        cut(t) == IF Len(t) <= 200 THEN t
                  ELSE SubSeq(t, 1, 197) \o <<".", ".", ".">>
    IN IF content.json = "array" THEN cut(joined(texts_of(content.items)))
       ELSE IF content.json = "string" THEN cut(content.s)
       ELSE <<"(", "r", "e", "s", "u", "l", "t", ")">>

\* ContentBlock::format_tool_result
format_tool_result(content) ==
    LET arr == Value_as_array(content)
        texts == IF arr = None THEN <<>> ELSE filter_map_text(Unwrap(arr))
    IN IF arr # None /\ texts # <<>>
       THEN truncate_result(join(texts, <<"\n">>), ToolResultMax)
       ELSE IF Value_as_str(content) # None
       THEN truncate_result(Unwrap(Value_as_str(content)), ToolResultMax)
       ELSE ResultFallback

\* ContentBlock::as_text
ContentBlock_as_text(b) ==
    CASE b.type = "text" -> Some(b.text)
      [] b.type = "thinking" -> Some(<<ThoughtBalloon, " ">> \o b.thinking)
      [] b.type = "tool_use" ->
           Some(<<Wrench, " ">> \o b.name \o input_preview(b.input))
      [] b.type = "tool_result" ->
           Some(<<Clipboard, " ">> \o format_tool_result(b.content))
      [] b.type = "other" -> None

\* blocks.iter().filter_map(|b| b.as_text()).collect()
RECURSIVE filter_map_as_text(_)
filter_map_as_text(blocks) ==
    IF blocks = <<>> THEN <<>>
    ELSE ContentBlock_as_text(Head(blocks)) \o filter_map_as_text(Tail(blocks))

\* AssistantMessage::as_text
AssistantMessage_as_text(content) ==
    join(filter_map_as_text(content.blocks), <<"\n">>)

\* MessageContent::as_text
MessageContent_as_text(content) ==
    IF content.kind = "Text" THEN content.text
    ELSE join(filter_map_as_text(content.blocks), <<"\n">>)

\* str::starts_with
starts_with(s, prefix) ==
    Len(prefix) <= Len(s) /\ SubSeq(s, 1, Len(prefix)) = prefix

\* SYSTEM_TAGS of is_system_content
SYSTEM_TAGS ==
    << <<"<", "s", "y", "s", "t", "e", "m", "-", "r", "e", "m", "i", "n", "d", "e", "r", ">">>,
       <<"<", "s", "y", "s", "t", "e", "m", ">">>,
       <<"<", "c", "o", "n", "t", "e", "x", "t", ">">>,
       <<"<", "e", "n", "v", ">">>,
       <<"<", "c", "l", "a", "u", "d", "e", "_", "b", "a", "c", "k", "g", "r", "o", "u", "n", "d", "_", "i", "n", "f", "o", ">">>,
       <<"<", "u", "s", "e", "r", "_", "p", "r", "i", "v", "a", "c", "y", ">">>,
       <<"<", "c", "r", "i", "t", "i", "c", "a", "l", "_">>,
       <<"<", "i", "n", "j", "e", "c", "t", "i", "o", "n", "_">>,
       <<"<", "m", "e", "t", "a", "_", "s", "a", "f", "e", "t", "y">>,
       <<"<", "s", "o", "c", "i", "a", "l", "_", "e", "n", "g", "i", "n", "e", "e", "r", "i", "n", "g">>,
       <<"<", "m", "a", "n", "d", "a", "t", "o", "r", "y", "_">>,
       <<"<", "c", "o", "p", "y", "r", "i", "g", "h", "t", "_">>,
       <<"<", "d", "o", "w", "n", "l", "o", "a", "d", "_">>,
       <<"<", "h", "a", "r", "m", "f", "u", "l", "_">>,
       <<"<", "a", "c", "t", "i", "o", "n", "_", "t", "y", "p", "e", "s", ">">>,
       <<"<", "c", "l", "a", "u", "d", "e", "M", "d", ">">> >>

\* MessageContent::is_system_content
is_system_content(content) ==
    LET text == MessageContent_as_text(content) IN
    IF text = <<>> THEN TRUE
    ELSE \E k \in 1..Len(SYSTEM_TAGS) :
            starts_with(to_lowercase(text), SYSTEM_TAGS[k])

\* ------------------------------------- scans (src/session/parser.rs)
\* String::len: the length in bytes of the UTF-8 encoding
Utf8Len(c) ==
    CASE c = EAcute -> 2
      [] c \in {Wrench, ThoughtBalloon, Clipboard} -> 4
      [] OTHER -> 1

RECURSIVE str_len(_)
str_len(s) ==
    IF s = <<>> THEN 0
    ELSE IF Len(s) = 1 THEN Utf8Len(s[1])
    ELSE str_len(SubSeq(s, 1, Len(s) \div 2))
             + str_len(SubSeq(s, Len(s) \div 2 + 1, Len(s)))

IsWhitespace(c) == c = " " \/ c = "\n"

\* str::trim
RECURSIVE trim_start(_)
trim_start(s) ==
    IF s # <<>> /\ IsWhitespace(Head(s)) THEN trim_start(Tail(s)) ELSE s

RECURSIVE trim_end(_)
trim_end(s) ==
    IF s # <<>> /\ IsWhitespace(s[Len(s)])
    THEN trim_end(SubSeq(s, 1, Len(s) - 1)) ELSE s

trim(s) == trim_end(trim_start(s))

\* truncate_message
truncate_message(s, max_chars) ==
    LET t == [k \in 1..Len(trim(s)) |->
                 IF trim(s)[k] = "\n" THEN " " ELSE trim(s)[k]]
    IN IF Len(t) <= max_chars THEN t
       ELSE SubSeq(t, 1, saturating_sub(max_chars, 3)) \o <<".", ".", ".">>

FirstMessageMax == 100

\* the locals of load_session_metadata before the loop
Acc_new ==
    [first_timestamp |-> None, first_user_message |-> None, summary |-> None,
     custom_title |-> None, message_count |-> 0, all_content |-> <<>>,
     total_chars |-> 0]

\* variant: every User record that is not system content sets the message
set_first_user_message_last(acc, content, text) ==
    IF ~is_system_content(content)
    THEN [acc EXCEPT !.first_user_message =
                         Some(truncate_message(text, FirstMessageMax))]
    ELSE acc

\* if first_user_message.is_none() && !message.content.is_system_content()
set_first_user_message(acc, content, text) ==
    IF acc.first_user_message = None /\ ~is_system_content(content)
    THEN [acc EXCEPT !.first_user_message =
                         Some(truncate_message(text, FirstMessageMax))]
    ELSE acc

\* variant: only messages with text are counted
count_message_with_text(acc, text) ==
    IF text = <<>> THEN acc ELSE [acc EXCEPT !.message_count = @ + 1]

\* message_count += 1
count_message(acc, text) == [acc EXCEPT !.message_count = @ + 1]

\* all_content.push(text); total_chars += text.len()
push_content(acc, text) ==
    [acc EXCEPT !.all_content = Append(@, text),
                !.total_chars = @ + str_len(text)]

\* load_session_metadata: the match on a decoded record
metadata_record(acc, record) ==
    CASE Unwrap(record.tag) = "summary" ->
           [push_content(acc, record.text) EXCEPT !.summary = Some(record.text)]
      [] Unwrap(record.tag) = "custom-title" ->
           [acc EXCEPT !.custom_title = Some(record.text)]
      [] Unwrap(record.tag) = "user" ->
           LET text == MessageContent_as_text(record.content)
               counted == [count_message(acc, text) EXCEPT
                              !.first_timestamp =
                                   IF @ = None THEN record.timestamp ELSE @]
           IN IF text # <<>>
              THEN set_first_user_message(push_content(counted, text),
                                          record.content, text)
              ELSE counted
      [] Unwrap(record.tag) = "assistant" ->
           LET text == AssistantMessage_as_text(record.content)
               counted == count_message(acc, text)
           IN IF text # <<>> THEN push_content(counted, text) ELSE counted
      [] OTHER -> acc

\* load_session_metadata: one turn of the loop over the lines
metadata_line(acc, line) ==
    IF line.raw = "invalid" THEN acc
    ELSE IF line.raw = "empty" THEN acc
    ELSE IF from_str(line) = None THEN acc
    ELSE metadata_record(acc, Unwrap(from_str(line)))

TokenChars == 4

\* load_session_metadata: the fields written after the loop
metadata_result(acc) ==
    [created |-> acc.first_timestamp,
     summary |-> acc.summary,
     first_message |-> acc.first_user_message,
     custom_title |-> acc.custom_title,
     message_count |-> Some(acc.message_count),
     search_content |-> Some(to_lowercase(join(acc.all_content, <<" ">>))),
     token_count |-> Some(acc.total_chars \div TokenChars)]

\* the derived fields of a session after Session::new
Derived_new ==
    [created |-> None, summary |-> None, first_message |-> None,
     custom_title |-> None, message_count |-> None, search_content |-> None,
     token_count |-> None]

\* variant: a field the file does not give keeps its earlier value
store_metadata_merge(session, acc) ==
    [session EXCEPT
        !.created = IF acc.first_timestamp = None THEN @ ELSE acc.first_timestamp,
        !.summary = IF acc.summary = None THEN @ ELSE acc.summary,
        !.first_message =
             IF acc.first_user_message = None THEN @ ELSE acc.first_user_message,
        !.custom_title = IF acc.custom_title = None THEN @ ELSE acc.custom_title,
        !.message_count = Some(acc.message_count),
        !.search_content = Some(to_lowercase(join(acc.all_content, <<" ">>))),
        !.token_count = Some(acc.total_chars \div TokenChars)]

\* load_session_metadata: session.created = first_timestamp; ... Ok(())
store_metadata(session, acc) ==
    [session EXCEPT
        !.created = metadata_result(acc).created,
        !.summary = metadata_result(acc).summary,
        !.first_message = metadata_result(acc).first_message,
        !.custom_title = metadata_result(acc).custom_title,
        !.message_count = metadata_result(acc).message_count,
        !.search_content = metadata_result(acc).search_content,
        !.token_count = metadata_result(acc).token_count]

RECURSIVE metadata_loop(_, _)
metadata_loop(acc, lines) ==
    IF lines = <<>> THEN acc
    ELSE metadata_loop(metadata_line(acc, Head(lines)), Tail(lines))

\* load_session_metadata on the lines of an opened file
scan_metadata(lines) == metadata_result(metadata_loop(Acc_new, lines))

DisplayMessage(role, timestamp, content) ==
    [role |-> role, timestamp |-> timestamp, content |-> content]

SystemText == <<"[", "S", "y", "s", "t", "e", "m", "]">>

\* variant: the newest message goes first
messages_push_front(messages, message) == <<message>> \o messages

\* messages.push(DisplayMessage { .. })
messages_push(messages, message) == Append(messages, message)

\* load_session_messages: the match on a decoded record
messages_record(messages, record) ==
    CASE Unwrap(record.tag) = "user" ->
           LET content == MessageContent_as_text(record.content) IN
           IF ~is_system_content(record.content) /\ content # <<>>
           THEN messages_push(messages,
                              DisplayMessage("User", Unwrap(record.timestamp), content))
           ELSE messages
      [] Unwrap(record.tag) = "assistant" ->
           LET content == AssistantMessage_as_text(record.content) IN
           IF content # <<>>
           THEN messages_push(messages,
                              DisplayMessage("Assistant", Unwrap(record.timestamp), content))
           ELSE messages
      [] Unwrap(record.tag) = "system" ->
           IF IsSome(record.timestamp)
           THEN messages_push(messages,
                              DisplayMessage("System", Unwrap(record.timestamp), SystemText))
           ELSE messages
      [] OTHER -> messages

\* load_session_messages: one turn of the loop over the lines
messages_line(messages, line) ==
    IF line.raw = "invalid" THEN messages
    ELSE IF line.raw = "empty" THEN messages
    ELSE IF from_str(line) = None THEN messages
    ELSE messages_record(messages, Unwrap(from_str(line)))

RECURSIVE messages_loop(_, _)
messages_loop(messages, lines) ==
    IF lines = <<>> THEN messages
    ELSE messages_loop(messages_line(messages, Head(lines)), Tail(lines))

\* load_session_messages on the lines of an opened file
load_session_messages(lines) == messages_loop(<<>>, lines)

PreviewLabelMax == 50

ShortIdLen == 12

\* a panic of the program, where a String was to be the result
Panic == <<"panic">>

\* &s[..n] for n <= s.len(): the characters of the first n bytes; panics when
\* byte n is not a character boundary
RECURSIVE byte_prefix(_, _)
byte_prefix(s, n) ==
    IF n = 0 THEN <<>>
    ELSE IF Utf8Len(Head(s)) > n THEN Panic
    ELSE IF byte_prefix(Tail(s), n - Utf8Len(Head(s))) = Panic THEN Panic
    ELSE <<Head(s)>> \o byte_prefix(Tail(s), n - Utf8Len(Head(s)))

\* format!("{}", count) for the counts 0..9
usize_to_string(n) == <<<<"0", "1", "2", "3", "4", "5", "6", "7", "8", "9">>[n + 1]>>

\* get_session_preview: let short_id = ...
short_id(id) ==
    IF str_len(id) > ShortIdLen
    THEN IF byte_prefix(id, ShortIdLen) = Panic THEN Panic
         ELSE byte_prefix(id, ShortIdLen) \o <<".", ".", ".">>
    ELSE id

\* get_session_preview
get_session_preview(session) ==
    IF IsSome(session.custom_title)
    THEN truncate_message(Unwrap(session.custom_title), PreviewLabelMax)
    ELSE IF IsSome(session.first_message)
    THEN truncate_message(Unwrap(session.first_message), PreviewLabelMax)
    ELSE IF IsSome(session.summary)
    THEN truncate_message(Unwrap(session.summary), PreviewLabelMax)
    ELSE IF IsSome(session.message_count) /\ Unwrap(session.message_count) > 0
    THEN <<"[">> \o usize_to_string(Unwrap(session.message_count))
             \o <<" ", "m", "e", "s", "s", "a", "g", "e">>
             \o (IF Unwrap(session.message_count) = 1 THEN <<>> ELSE <<"s">>)
             \o <<"]">>
    ELSE IF short_id(session.id) = Panic THEN Panic
    ELSE <<"[">> \o short_id(session.id) \o <<"]">>

\* the variable call outside a call
Call_idle == [fn |-> "none", arg |-> <<>>, done |-> FALSE, result |-> <<>>]

\* the variable parse outside a scan
Parse_idle ==
    [lines |-> <<>>, readable |-> TRUE, fn |-> "none", status |-> "idle",
     pos |-> 0, acc |-> Acc_new, messages |-> <<>>, session |-> Derived_new]

\* ------------------------------------ preview (src/ui/state.rs, app.rs)
\* the preview_* fields set by UiState::new
Preview_new ==
    [preview_scroll |-> 0, preview_lines |-> <<>>, preview_search |-> <<>>,
     preview_search_active |-> FALSE, preview_matches |-> <<>>,
     preview_match_index |-> 0]

\* str::lines: split at "\n", no line for a trailing "\n"
RECURSIVE str_lines(_)
str_lines(s) ==
    IF s = <<>> THEN <<>>
    ELSE IF \E k \in 1..Len(s) : s[k] = "\n"
    THEN LET k == CHOOSE k \in 1..Len(s) :
                     s[k] = "\n" /\ \A j \in 1..(k - 1) : s[j] # "\n"
         IN <<SubSeq(s, 1, k - 1)>> \o str_lines(SubSeq(s, k + 1, Len(s)))
    ELSE <<s>>

\* msg.timestamp.format("%Y-%m-%d %H:%M:%S"): timestamps 0..9 print as a digit
format_timestamp(t) == <<<<"0", "1", "2", "3", "4", "5", "6", "7", "8", "9">>[t + 1]>>

\* open_preview: the role label of a message
role_label(role) ==
    CASE role = "User" -> <<"[", "U", "s", "e", "r", "]">>
      [] role = "Assistant" -> <<"[", "A", "s", "s", "i", "s", "t", "a", "n", "t", "]">>
      [] role = "System" -> <<"[", "S", "y", "s", "t", "e", "m", "]">>

\* open_preview: the lines of one message (header, blank, content, blank)
message_lines(msg) ==
    <<role_label(msg.role) \o <<" ">> \o format_timestamp(msg.timestamp), <<>>>>
        \o str_lines(msg.content) \o << <<>> >>

\* open_preview: messages.iter().flat_map(..).collect()
RECURSIVE flat_map_lines(_)
flat_map_lines(messages) ==
    IF messages = <<>> THEN <<>>
    ELSE message_lines(Head(messages)) \o flat_map_lines(Tail(messages))

\* the lines of the session files, in keeping with FileSummary,
\* FileFirstMessage and FileContent
FileLines(p) ==
    << << JsonLine(Some("user"), TRUE, <<>>, Some(1), Text(<<"B">>)),
          GarbageLine,
          JsonLine(Some("system"), TRUE, <<>>, Some(2), NoContent) >>,
       << JsonLine(Some("summary"), TRUE, <<"a">>, None, NoContent),
          JsonLine(Some("user"), TRUE, <<>>, Some(1), Text(<<"b">>)) >>,
       << JsonLine(Some("summary"), TRUE, <<"a">>, None, NoContent),
          EmptyLine,
          JsonLine(Some("user"), TRUE, <<>>, Some(3), Text(<<"a", "B">>)),
          JsonLine(Some("assistant"), TRUE, <<>>, Some(4),
                   Structured(<<OtherBlock>>)) >>,
       << JsonLine(Some("user"), TRUE, <<>>, Some(5), Structured(<<>>)) >>,
       << JsonLine(Some("summary"), TRUE, <<"B", " ", "a">>, None, NoContent) >>
    >>[Slot(p)]

\* variant: the lines are compared as they are, the query lowercased
update_preview_search_case_sensitive(pv) ==
    LET cleared == [pv EXCEPT !.preview_matches = <<>>, !.preview_match_index = 0]
        query == to_lowercase(pv.preview_search)
        matches == SelectSeq([k \in 1..Len(pv.preview_lines) |-> k - 1],
                             LAMBDA i : contains(At(pv.preview_lines, i), query))
    IN IF pv.preview_search = <<>> THEN cleared
       ELSE IF matches # <<>>
       THEN [cleared EXCEPT !.preview_matches = matches,
                            !.preview_scroll = At(matches, 0)]
       ELSE cleared

\* variant: the match index is kept when the matches are computed anew
update_preview_search_keep_index(pv) ==
    LET cleared == [pv EXCEPT !.preview_matches = <<>>]
        query == to_lowercase(pv.preview_search)
        matches == SelectSeq([k \in 1..Len(pv.preview_lines) |-> k - 1],
                             LAMBDA i : contains(to_lowercase(At(pv.preview_lines, i)),
                                                 query))
    IN IF pv.preview_search = <<>> THEN cleared
       ELSE IF matches # <<>>
       THEN [cleared EXCEPT !.preview_matches = matches,
                            !.preview_scroll = At(matches, 0)]
       ELSE cleared

\* UiState::update_preview_search
update_preview_search(pv) ==
    LET cleared == [pv EXCEPT !.preview_matches = <<>>, !.preview_match_index = 0]
        query == to_lowercase(pv.preview_search)
        matches == SelectSeq([k \in 1..Len(pv.preview_lines) |-> k - 1],
                             LAMBDA i : contains(to_lowercase(At(pv.preview_lines, i)),
                                                 query))
    IN IF pv.preview_search = <<>> THEN cleared
       ELSE IF matches # <<>>
       THEN [cleared EXCEPT !.preview_matches = matches,
                            !.preview_scroll = At(matches, 0)]
       ELSE cleared

\* variant: the last match is where next stops
next_preview_match_saturating(pv) ==
    IF pv.preview_matches = <<>> THEN pv
    ELSE LET index == Min(pv.preview_match_index + 1, Len(pv.preview_matches) - 1)
         IN [pv EXCEPT !.preview_match_index = index,
                       !.preview_scroll = At(pv.preview_matches, index)]

\* UiState::next_preview_match
next_preview_match(pv) ==
    IF pv.preview_matches = <<>> THEN pv
    ELSE LET index == (pv.preview_match_index + 1) % Len(pv.preview_matches)
         IN [pv EXCEPT !.preview_match_index = index,
                       !.preview_scroll = At(pv.preview_matches, index)]

\* UiState::prev_preview_match
prev_preview_match(pv) ==
    IF pv.preview_matches = <<>> THEN pv
    ELSE LET index == IF pv.preview_match_index = 0
                      THEN Len(pv.preview_matches) - 1
                      ELSE pv.preview_match_index - 1
         IN [pv EXCEPT !.preview_match_index = index,
                       !.preview_scroll = At(pv.preview_matches, index)]

\* UiState::clear_preview_search
clear_preview_search(pv) ==
    [pv EXCEPT !.preview_search = <<>>, !.preview_search_active = FALSE,
               !.preview_matches = <<>>, !.preview_match_index = 0]

\* variant: closing keeps the search
preview_close_keep_search(pv) == [pv EXCEPT !.preview_lines = <<>>]

\* handle_preview_keys, 'q' | Esc: the preview_* fields when the preview closes
preview_close(pv) == [clear_preview_search(pv) EXCEPT !.preview_lines = <<>>]

\* ------------------------------------------------- scanning and start-up
Reverse(v) == [k \in 1..Len(v) |-> v[Len(v) + 1 - k]]

\* the orders in which read_dir can list a set of files
DirOrders(files) ==
    {o \in [1..Cardinality(files) -> files] :
        \A j, k \in 1..Cardinality(files) : j # k => o[j] # o[k]}

\* newest first: |a, b| b.modified.cmp(&a.modified)
by_modified(a, b) == int_cmp(b.modified, a.modified)

by_size(a, b) == int_cmp(b.size_bytes, a.size_bytes)

by_project(a, b) == str_cmp(a.project, b.project)

by_name(a, b) == str_cmp(sort_name(a), sort_name(b))

\* scan_sessions on the listing order dir: Session::new per file, newest first
scan_sessions(dir) ==
    sort_by([k \in 1..Len(dir) |-> Session_new(dir[k])], by_modified)

\* load_all_metadata / the loops that scan every session without first_message
load_all(sessions, files) ==
    [k \in 1..Len(sessions) |->
        IF sessions[k].first_message = None
        THEN load_session_metadata(sessions[k], files) ELSE sessions[k]]

\* main: --project retain, --sort, --reverse on the scanned sessions
main_sessions(scanned, cli_project, cli_sort, cli_reverse, files) ==
    LET kept == IF IsSome(cli_project)
                THEN SelectSeq(scanned, LAMBDA x :
                        contains(to_lowercase(x.project),
                                 to_lowercase(Unwrap(cli_project))))
                ELSE scanned
        sorted == CASE cli_sort = "Date" -> sort_by(kept, by_modified)
                    [] cli_sort = "Size" -> sort_by(kept, by_size)
                    [] cli_sort = "Project" -> sort_by(kept, by_project)
                    [] cli_sort = "Name" ->
                         sort_by([k \in 1..Len(kept) |->
                                     load_session_metadata(kept[k], files)], by_name)
    IN IF cli_reverse THEN Reverse(sorted) ELSE sorted

\* values of --project tried at start-up
CliProjects == {None, Some(<<"A">>)}

\* App::new(UiState::new(sessions)) in run_tui, reached from main
Init ==
    \E files \in SUBSET Paths :
    \E dir \in DirOrders(files) :
    \E cli_project \in CliProjects, cli_sort \in SortFields, cli_reverse \in BOOLEAN :
        /\ disk = files
        /\ state = UiState_new(main_sessions(scan_sessions(dir), cli_project,
                                             cli_sort, cli_reverse, files))
        /\ table_state = 0
        /\ should_quit = FALSE
        /\ needs_refresh = FALSE
        /\ pc = "load"
        /\ now = StartNow
        /\ preview = Preview_new
        /\ parse = Parse_idle
        /\ call = Call_idle

\* ------------------------------------------------ App (src/ui/app.rs)
\* App::run before the loop: load_all_metadata
LoadAllMetadata ==
    /\ pc = "load"
    /\ state' = [state EXCEPT !.sessions = load_all(state.sessions, disk)]
    /\ pc' = "loop"
    /\ UNCHANGED <<table_state, should_quit, needs_refresh, disk, now, preview, parse, call>>

\* UiState::current_project_filter indexes projects without a bounds check
project_filter_in_range(st) ==
    st.project_filter_index = 0 \/ st.project_filter_index - 1 < Len(st.projects)

\* terminal.draw: the list view indexes projects (draw_header) and
\* sessions[session_idx] (draw_session_table) and panics out of range
draw_panics(st) ==
    \/ ~project_filter_in_range(st)
    \/ \E idx \in Range(st.filtered_indices) : idx >= Len(st.sessions)

\* one turn of the loop of App::run can start: the frame was drawn
Running == pc = "loop" /\ ~should_quit /\ ~draw_panics(state)

DrawPanic ==
    /\ pc = "loop" /\ ~should_quit /\ draw_panics(state)
    /\ pc' = "panicked"
    /\ UNCHANGED <<state, table_state, should_quit, needs_refresh, disk, now, preview, parse, call>>

\* the clock advances
Tick ==
    /\ now < StartNow + MaxTicks
    /\ now' = now + 1
    /\ UNCHANGED <<state, table_state, should_quit, needs_refresh, pc, disk, preview, parse, call>>

\* handle_events on a key press in the List view reaches handle_list_keys
ListKey == Running /\ state.view = "List"

\* App::load_current_metadata
load_current_metadata(st, files) ==
    IF IsSome(current_session_index(st))
       /\ Unwrap(current_session_index(st)) < Len(st.sessions)
       /\ At(st.sessions, Unwrap(current_session_index(st))).first_message = None
    THEN [st EXCEPT !.sessions[Unwrap(current_session_index(st)) + 1] =
                load_session_metadata(@, files)]
    ELSE st

ListKeyQuit ==
    /\ ListKey
    /\ state' = clear_status(state)
    /\ should_quit' = TRUE
    /\ UNCHANGED <<table_state, needs_refresh, pc, disk, now, preview, parse, call>>

ListKeyDown ==
    /\ ListKey
    /\ state' = load_current_metadata(cursor_down(clear_status(state)), disk)
    /\ table_state' = state'.cursor
    /\ UNCHANGED <<should_quit, needs_refresh, pc, disk, now, preview, parse, call>>

ListKeyUp ==
    /\ ListKey
    /\ state' = load_current_metadata(cursor_up(clear_status(state)), disk)
    /\ table_state' = state'.cursor
    /\ UNCHANGED <<should_quit, needs_refresh, pc, disk, now, preview, parse, call>>

ListKeyHome ==
    /\ ListKey
    /\ state' = cursor_top(clear_status(state))
    /\ table_state' = 0
    /\ UNCHANGED <<should_quit, needs_refresh, pc, disk, now, preview, parse, call>>

ListKeyEnd ==
    /\ ListKey
    /\ state' = cursor_bottom(clear_status(state))
    /\ table_state' = saturating_sub(Len(state'.filtered_indices), 1)
    /\ UNCHANGED <<should_quit, needs_refresh, pc, disk, now, preview, parse, call>>

\* the page size handle_list_keys passes
KeyPageSize == 20

ListKeyPageUp ==
    /\ ListKey
    /\ state' = page_up(clear_status(state), KeyPageSize)
    /\ table_state' = state'.cursor
    /\ UNCHANGED <<should_quit, needs_refresh, pc, disk, now, preview, parse, call>>

ListKeyPageDown ==
    /\ ListKey
    /\ state' = page_down(clear_status(state), KeyPageSize)
    /\ table_state' = state'.cursor
    /\ UNCHANGED <<should_quit, needs_refresh, pc, disk, now, preview, parse, call>>

ListKeySpace ==
    /\ ListKey
    /\ state' = cursor_down(toggle_selection(clear_status(state)))
    /\ table_state' = state'.cursor
    /\ UNCHANGED <<should_quit, needs_refresh, pc, disk, now, preview, parse, call>>

ListKeySelectAll ==
    /\ ListKey
    /\ state' = select_all(clear_status(state))
    /\ UNCHANGED <<table_state, should_quit, needs_refresh, pc, disk, now, preview, parse, call>>

ListKeyClearSelection ==
    /\ ListKey
    /\ state' = clear_selection(clear_status(state))
    /\ UNCHANGED <<table_state, should_quit, needs_refresh, pc, disk, now, preview, parse, call>>

ListKeySearch ==
    /\ ListKey
    /\ state' = [clear_status(state) EXCEPT !.view = "Search"]
    /\ UNCHANGED <<table_state, should_quit, needs_refresh, pc, disk, now, preview, parse, call>>

ListKeyHelp ==
    /\ ListKey
    /\ state' = [clear_status(state) EXCEPT !.view = "Help"]
    /\ UNCHANGED <<table_state, should_quit, needs_refresh, pc, disk, now, preview, parse, call>>

ListKeyProject ==
    /\ ListKey
    /\ state' = cycle_project_filter(clear_status(state), now)
    /\ UNCHANGED <<table_state, should_quit, needs_refresh, pc, disk, now, preview, parse, call>>

ListKeySort ==
    /\ ListKey
    /\ state' = cycle_sort_field(clear_status(state))
    /\ table_state' = state'.cursor
    /\ UNCHANGED <<should_quit, needs_refresh, pc, disk, now, preview, parse, call>>

ListKeySortDirection ==
    /\ ListKey
    /\ state' = toggle_sort_direction(clear_status(state))
    /\ table_state' = state'.cursor
    /\ UNCHANGED <<should_quit, needs_refresh, pc, disk, now, preview, parse, call>>

\* App::confirm_delete
confirm_delete(st) ==
    show_confirm(st,
                 Status("Delete?", IF st.selected = {} THEN 1
                                   ELSE Cardinality(st.selected)),
                 [kind |-> "DeleteSelected", days |-> 0])

\* the threshold confirm_delete_older hardcodes
DeleteOlderDays == 30

\* App::confirm_delete_older
confirm_delete_older(st) ==
    show_confirm(st, Status("DeleteOlder?", DeleteOlderDays),
                 [kind |-> "DeleteOlderThan", days |-> DeleteOlderDays])

ListKeyDelete ==
    /\ ListKey
    /\ state' = confirm_delete(clear_status(state))
    /\ UNCHANGED <<table_state, should_quit, needs_refresh, pc, disk, now, preview, parse, call>>

ListKeyDeleteOlder ==
    /\ ListKey
    /\ state' = confirm_delete_older(clear_status(state))
    /\ UNCHANGED <<table_state, should_quit, needs_refresh, pc, disk, now, preview, parse, call>>

\* 'r' sets needs_refresh; App::run then clears it and calls do_refresh in the
\* same turn. scan_sessions succeeds here: UiState::new, then every session
\* is scanned for metadata and the status is set.
ListKeyRefresh ==
    /\ ListKey
    /\ \E dir \in DirOrders(disk) :
          state' = set_status(
                     [UiState_new(scan_sessions(dir)) EXCEPT
                          !.sessions = load_all(scan_sessions(dir), disk)],
                     Status("Refreshed", Len(dir)))
    /\ table_state' = 0
    /\ needs_refresh' = FALSE
    /\ preview' = Preview_new
    /\ UNCHANGED <<should_quit, pc, disk, now, parse, call>>

\* the same turn when scan_sessions returns Err (the directory cannot be read)
ListKeyRefreshFailed ==
    /\ ListKey
    /\ state' = set_status(clear_status(state), Status("Refresh failed", 0))
    /\ needs_refresh' = FALSE
    /\ UNCHANGED <<table_state, should_quit, pc, disk, now, preview, parse, call>>

\* handle_mouse: the wheel moves the cursor in the List view only
MouseScrollUp ==
    /\ Running
    /\ state' = IF state.view = "List" THEN cursor_up(state) ELSE state
    /\ table_state' = IF state.view = "List" THEN state'.cursor ELSE table_state
    /\ UNCHANGED <<should_quit, needs_refresh, pc, disk, now, preview, parse, call>>

MouseScrollDown ==
    /\ Running
    /\ state' = IF state.view = "List" THEN cursor_down(state) ELSE state
    /\ table_state' = IF state.view = "List" THEN state'.cursor ELSE table_state
    /\ UNCHANGED <<should_quit, needs_refresh, pc, disk, now, preview, parse, call>>

\* characters typed into the filter, and the texts the typing heads for
QueryChars == {"a", "B"}

Queries == {<<"a", "B">>, <<"B">>}

IsPrefix(p, q) == Len(p) <= Len(q) /\ SubSeq(q, 1, Len(p)) = p

\* the typed text stays within the texts tried
Typable(query, c) == \E q \in Queries : IsPrefix(Append(query, c), q)

\* String::pop
String_pop(q) == IF q = <<>> THEN q ELSE SubSeq(q, 1, Len(q) - 1)

\* handle_search_keys, one operator per arm; t is the clock apply_filters reads
search_esc(st, t) ==
    [apply_filters([st EXCEPT !.filter.query = <<>>], t) EXCEPT !.view = "List"]

search_enter(st, t) == [apply_filters(st, t) EXCEPT !.view = "List"]

\* Backspace in the search view without the call of apply_filters
search_backspace_no_filter(st, t) ==
    [st EXCEPT !.filter.query = String_pop(st.filter.query)]

search_backspace(st, t) ==
    apply_filters([st EXCEPT !.filter.query = String_pop(st.filter.query)], t)

search_char(st, c, t) ==
    apply_filters([st EXCEPT !.filter.query = Append(st.filter.query, c)], t)

SearchKey == Running /\ state.view = "Search"

SearchKeyEsc ==
    /\ SearchKey
    /\ state' = search_esc(clear_status(state), now)
    /\ UNCHANGED <<table_state, should_quit, needs_refresh, pc, disk, now, preview, parse, call>>

SearchKeyEnter ==
    /\ SearchKey
    /\ state' = search_enter(clear_status(state), now)
    /\ UNCHANGED <<table_state, should_quit, needs_refresh, pc, disk, now, preview, parse, call>>

SearchKeyBackspace ==
    /\ SearchKey
    /\ state' = search_backspace(clear_status(state), now)
    /\ UNCHANGED <<table_state, should_quit, needs_refresh, pc, disk, now, preview, parse, call>>

SearchKeyChar ==
    /\ SearchKey
    /\ \E c \in QueryChars :
          /\ Typable(state.filter.query, c)
          /\ state' = search_char(clear_status(state), c, now)
    /\ UNCHANGED <<table_state, should_quit, needs_refresh, pc, disk, now, preview, parse, call>>

\* handle_help_keys: q, Esc and ? close the overlay
HelpKeyClose ==
    /\ Running /\ state.view = "Help"
    /\ state' = [clear_status(state) EXCEPT !.view = "List"]
    /\ UNCHANGED <<table_state, should_quit, needs_refresh, pc, disk, now, preview, parse, call>>

\* variant: delete older than N days looks at the filtered sessions only
to_delete_filtered(st, action, t) ==
    IF action.kind = "DeleteSelected"
    THEN IF st.selected = {}
         THEN (IF st.cursor < Len(st.filtered_indices)
               THEN {st.filtered_indices[st.cursor + 1]} ELSE {})
         ELSE st.selected
    ELSE {idx \in {st.filtered_indices[k] : k \in 1..Len(st.filtered_indices)} :
            num_days(t - st.sessions[idx + 1].modified) >= action.days}

\* the index set execute_dialog_action hands to remove_sessions
to_delete(st, action, t) ==
    IF action.kind = "DeleteSelected"
    THEN IF st.selected = {}
         THEN (IF IsSome(current_session_index(st))
               THEN {Unwrap(current_session_index(st))} ELSE {})
         ELSE st.selected
    ELSE {idx \in 0..(Len(st.sessions) - 1) :
            num_days(t - At(st.sessions, idx).modified) >= action.days}

\* the sessions delete_session is called on: filter_map over sessions.get(idx)
delete_targets(st, indices) ==
    {At(st.sessions, idx).path : idx \in {i \in indices : i < Len(st.sessions)}}

\* execute_dialog_action for the two delete actions, then clear_dialog
execute_delete(st, action, t) ==
    LET indices == to_delete(st, action, t) IN
    clear_dialog(
        set_status(remove_sessions([st EXCEPT !.dialog_action = None], indices, t),
                   Status(IF action.kind = "DeleteSelected"
                          THEN "Deleted" ELSE "Deleted older",
                          Cardinality(delete_targets(st, indices)))))

ConfirmKey == Running /\ state.view = "Confirm"

\* actions::delete_session on every target: the file is gone when
\* fs::remove_file succeeds and stays when it fails
delete_sessions(files, targets) ==
    files \ {p \in targets : FileDeletable(p)}

\* y / Enter: execute_dialog_action on the pending action, then clear_dialog
ConfirmKeyYes ==
    /\ ConfirmKey
    /\ IsSome(state.dialog_action)
    /\ LET action == Unwrap(state.dialog_action)
           indices == to_delete(state, action, now)
       IN /\ disk' = delete_sessions(disk, delete_targets(state, indices))
          /\ state' = execute_delete(clear_status(state), action, now)
    /\ UNCHANGED <<table_state, should_quit, needs_refresh, pc, now, preview, parse, call>>

ConfirmKeyNo ==
    /\ ConfirmKey
    /\ state' = clear_dialog(clear_status(state))
    /\ UNCHANGED <<table_state, should_quit, needs_refresh, pc, disk, now, preview, parse, call>>

Next ==
    \/ LoadAllMetadata
    \/ DrawPanic
    \/ ListKeyQuit
    \/ ListKeyDown
    \/ ListKeyUp
    \/ ListKeyHome
    \/ ListKeyEnd
    \/ ListKeyPageUp
    \/ ListKeyPageDown
    \/ ListKeySpace
    \/ ListKeySelectAll
    \/ ListKeyClearSelection
    \/ ListKeySearch
    \/ ListKeyHelp
    \/ ListKeyProject
    \/ ListKeySort
    \/ ListKeySortDirection
    \/ ListKeyDelete
    \/ ListKeyDeleteOlder
    \/ ListKeyRefresh
    \/ ListKeyRefreshFailed
    \/ MouseScrollUp
    \/ MouseScrollDown
    \/ SearchKeyEsc
    \/ SearchKeyEnter
    \/ SearchKeyBackspace
    \/ SearchKeyChar
    \/ HelpKeyClose
    \/ ConfirmKeyYes
    \/ ConfirmKeyNo

Spec == Init /\ [][Next]_vars

\* ------------------------------------- UiState driven by a direct caller
\* StateSpec: any collection handed to UiState::new, then any sequence of
\* the public operations with any arguments (the query is edited the way
\* handle_search_keys edits it). The App plays no part: table_state,
\* should_quit, needs_refresh, pc and disk keep their initial values.

\* collections: the scanned sessions of all files, in every order (every
\* smaller collection is reached by remove_sessions)
Collections ==
    {load_all([k \in 1..Len(dir) |-> Session_new(dir[k])], Paths) :
        dir \in DirOrders(Paths)}

\* page sizes and index sets a caller passes
PageSizes == {1, 20}

IndexSets == SUBSET (0..MaxSessions)

StateInit ==
    \E sessions \in Collections :
        /\ state = UiState_new(sessions)
        /\ table_state = 0
        /\ should_quit = FALSE
        /\ needs_refresh = FALSE
        /\ pc = "loop"
        /\ disk = {}
        /\ now = StartNow
        /\ preview = Preview_new
        /\ parse = Parse_idle
        /\ call = Call_idle

AppIdle == UNCHANGED <<table_state, should_quit, needs_refresh, pc, disk, now, preview, parse, call>>

OpCursorUp ==
    state' = cursor_up(state) /\ AppIdle

OpCursorDown ==
    state' = cursor_down(state) /\ AppIdle

OpCursorTop ==
    state' = cursor_top(state) /\ AppIdle

OpCursorBottom ==
    state' = cursor_bottom(state) /\ AppIdle

PageUpBy(n) == state' = page_up(state, n) /\ AppIdle

OpPageUp == \E n \in PageSizes : PageUpBy(n)

PageDownBy(n) == state' = page_down(state, n) /\ AppIdle

OpPageDown == \E n \in PageSizes : PageDownBy(n)

OpToggleSelection ==
    state' = toggle_selection(state) /\ AppIdle

OpSelectAll ==
    state' = select_all(state) /\ AppIdle

OpClearSelection ==
    state' = clear_selection(state) /\ AppIdle

OpApplyFilters ==
    state' = apply_filters(state, now) /\ AppIdle

OpApplySort ==
    state' = apply_sort(state) /\ AppIdle

OpCycleSortField ==
    state' = cycle_sort_field(state) /\ AppIdle

OpToggleSortDirection ==
    /\ state' = toggle_sort_direction(state)
    /\ AppIdle

OpCycleProjectFilter ==
    /\ state' = cycle_project_filter(state, now)
    /\ AppIdle

RemoveSessionsOf(indices) ==
    state' = remove_sessions(state, indices, now) /\ AppIdle

OpRemoveSessions == \E indices \in IndexSets : RemoveSessionsOf(indices)

OpQueryChar ==
    \E c \in QueryChars :
        /\ Typable(state.filter.query, c)
        /\ state' = search_char(state, c, now)
        /\ AppIdle

OpQueryBackspace ==
    state' = search_backspace(state, now) /\ AppIdle

OpQueryClear ==
    state' = search_esc(state, now) /\ AppIdle

StateNext ==
    \/ OpCursorUp
    \/ OpCursorDown
    \/ OpCursorTop
    \/ OpCursorBottom
    \/ OpPageUp
    \/ OpPageDown
    \/ OpToggleSelection
    \/ OpSelectAll
    \/ OpClearSelection
    \/ OpApplyFilters
    \/ OpApplySort
    \/ OpCycleSortField
    \/ OpToggleSortDirection
    \/ OpCycleProjectFilter
    \/ OpRemoveSessions
    \/ OpQueryChar
    \/ OpQueryBackspace
    \/ OpQueryClear

StateSpec == StateInit /\ [][StateNext]_vars

\* ------------------------------------------- apply_filters on any filter
\* FilterSpec: a caller assigns the public filter field (query, project and
\* minimum age), moves the cursor and calls apply_filters while the clock runs.

\* every order of every set of scanned sessions
SubCollections ==
    UNION {{load_all([k \in 1..Len(dir) |-> Session_new(dir[k])], files) :
                dir \in DirOrders(files)} : files \in SUBSET Paths}

\* the filters assigned
FilterQueries == {<<>>, <<"a">>, <<"B">>, <<"a", "B">>}

FilterProjects == {None} \cup {Some(FileProject(p)) : p \in Paths}

FilterAges == {None, Some(0), Some(1), Some(DeleteOlderDays)}

Filters == [query : FilterQueries, project : FilterProjects, age_days : FilterAges]

FilterInit ==
    \E sessions \in SubCollections :
        /\ state = UiState_new(sessions)
        /\ table_state = 0
        /\ should_quit = FALSE
        /\ needs_refresh = FALSE
        /\ pc = "loop"
        /\ disk = {}
        /\ now = StartNow
        /\ preview = Preview_new
        /\ parse = Parse_idle
        /\ call = Call_idle

\* state.filter = f: Filter and its fields are public
FilterAssign ==
    \E f \in Filters : state' = [state EXCEPT !.filter = f] /\ AppIdle

FilterNext ==
    \/ FilterAssign
    \/ OpApplyFilters
    \/ OpCursorDown
    \/ OpCursorTop
    \/ Tick

FilterSpec == FilterInit /\ [][FilterNext]_vars

\* ------------------------------------- one scan of a file, line by line
MaxLines == 3

\* the length of a message longer than a first_message can be
LongLen == 130

LongText == [k \in 1..LongLen |-> IF k % 2 = 1 THEN "a" ELSE "b"]

\* the lines a file is made of
LineKinds ==
    { InvalidLine, EmptyLine, GarbageLine,
      JsonLine(None, FALSE, <<>>, None, NoContent),
      JsonLine(Some("user"), FALSE, <<>>, None, NoContent),
      JsonLine(Some("progress"), FALSE, <<>>, None, NoContent),
      JsonLine(Some("summary"), TRUE, <<EAcute, EAcute>>, None, NoContent),
      JsonLine(Some("custom-title"), TRUE, <<"B">>, None, NoContent),
      JsonLine(Some("file-history-snapshot"), TRUE, <<>>, None, NoContent),
      JsonLine(Some("queue-operation"), TRUE, <<>>, None, NoContent),
      JsonLine(Some("user"), TRUE, <<>>, Some(1), Text(<<"B", "\n", "a">>)),
      JsonLine(Some("user"), TRUE, <<>>, Some(2),
               Text(<<"<", "E", "n", "v", ">", "a">>)),
      JsonLine(Some("user"), TRUE, <<>>, Some(3), Structured(<<OtherBlock>>)),
      JsonLine(Some("assistant"), TRUE, <<>>, Some(4),
               Structured(<<TextBlock(<<"a">>), OtherBlock, TextBlock(<<"b">>)>>)),
      JsonLine(Some("assistant"), TRUE, <<>>, Some(5), Structured(<<>>)),
      JsonLine(Some("system"), TRUE, <<>>, Some(6), NoContent),
      JsonLine(Some("system"), TRUE, <<>>, None, NoContent) }

FileTexts == UNION {[1..n -> LineKinds] : n \in 0..MaxLines}

ParseInit ==
    /\ state = UiState_new(<<>>)
    /\ table_state = 0
    /\ should_quit = FALSE
    /\ needs_refresh = FALSE
    /\ pc = "loop"
    /\ disk = {}
    /\ now = StartNow
    /\ preview = Preview_new
    /\ \E lines \in FileTexts, readable \in BOOLEAN,
          fn \in {"metadata", "messages"} :
          parse = [Parse_idle EXCEPT !.lines = lines, !.readable = readable,
                                     !.fn = fn]
    /\ call = Call_idle

ParseIdle ==
    UNCHANGED <<state, table_state, should_quit, needs_refresh, pc, disk, now,
                preview, call>>

\* File::open(path)?: Err returns from the function, Ok starts the loop
ParseOpen ==
    /\ parse.status = "idle"
    /\ parse' = [parse EXCEPT !.status = IF parse.readable THEN "reading"
                                         ELSE "err"]
    /\ ParseIdle

\* variant: a line that does not decode ends the scan with an error
ReadMetadataLine_abort ==
    /\ parse.status = "reading"
    /\ parse.fn = "metadata"
    /\ parse.pos < Len(parse.lines)
    /\ parse' = IF from_str(parse.lines[parse.pos + 1]) = None
                THEN [parse EXCEPT !.status = "err"]
                ELSE [parse EXCEPT
                         !.acc = metadata_line(@, parse.lines[parse.pos + 1]),
                         !.pos = @ + 1]
    /\ ParseIdle

\* load_session_metadata: one turn of for line in reader.lines()
ReadMetadataLine ==
    /\ parse.status = "reading"
    /\ parse.fn = "metadata"
    /\ parse.pos < Len(parse.lines)
    /\ parse' = [parse EXCEPT
                    !.acc = metadata_line(@, parse.lines[parse.pos + 1]),
                    !.pos = @ + 1]
    /\ ParseIdle

\* load_session_messages: one turn of for line in reader.lines()
ReadMessagesLine ==
    /\ parse.status = "reading"
    /\ parse.fn = "messages"
    /\ parse.pos < Len(parse.lines)
    /\ parse' = [parse EXCEPT
                    !.messages = messages_line(@, parse.lines[parse.pos + 1]),
                    !.pos = @ + 1]
    /\ ParseIdle

\* the loop is over: Ok(()) / Ok(messages)
ParseReturn ==
    /\ parse.status = "reading"
    /\ parse.pos = Len(parse.lines)
    /\ parse' = [parse EXCEPT
                    !.status = "ok",
                    !.session = IF parse.fn = "metadata"
                                THEN store_metadata(@, parse.acc) ELSE @]
    /\ ParseIdle

\* metadata scans of files with messages of every length
FirstMessageKinds ==
    { GarbageLine,
      JsonLine(Some("summary"), TRUE, <<"a">>, None, NoContent),
      JsonLine(Some("user"), TRUE, <<>>, Some(1), Text(<<"B", "\n", "a">>)),
      JsonLine(Some("user"), TRUE, <<>>, Some(2),
               Text(<<"<", "E", "n", "v", ">", "a">>)),
      JsonLine(Some("user"), TRUE, <<>>, Some(3), Structured(<<OtherBlock>>)),
      JsonLine(Some("user"), TRUE, <<>>, Some(7), Text(LongText)),
      JsonLine(Some("assistant"), TRUE, <<>>, Some(4),
               Structured(<<TextBlock(<<"a">>)>>)) }

FirstMessageInit ==
    /\ state = UiState_new(<<>>)
    /\ table_state = 0
    /\ should_quit = FALSE
    /\ needs_refresh = FALSE
    /\ pc = "loop"
    /\ disk = {}
    /\ now = StartNow
    /\ preview = Preview_new
    /\ \E lines \in UNION {[1..n -> FirstMessageKinds] : n \in 0..MaxLines} :
          parse = [Parse_idle EXCEPT !.lines = lines, !.fn = "metadata"]
    /\ call = Call_idle

FirstMessageNext ==
    \/ ParseOpen
    \/ ReadMetadataLine
    \/ ParseReturn

FirstMessageSpec == FirstMessageInit /\ [][FirstMessageNext]_vars

ParseNext ==
    \/ ParseOpen
    \/ ReadMetadataLine
    \/ ReadMessagesLine
    \/ ParseReturn

ParseSpec == ParseInit /\ [][ParseNext]_vars

\* --------------------------------------------- the preview (src/ui/app.rs)
PreviewPageSize == 20

MouseStep == 3

\* characters typed into the preview search, and how far
PreviewChars == {"S", "B"}

PreviewQueries == UNION {[1..n -> PreviewChars] : n \in 0..2}

\* the program started without options on all the files
PreviewInit ==
    /\ disk = Paths
    /\ \E dir \in DirOrders(Paths) :
          state = UiState_new(main_sessions(scan_sessions(dir), None, "Date",
                                            FALSE, Paths))
    /\ table_state = 0
    /\ should_quit = FALSE
    /\ needs_refresh = FALSE
    /\ pc = "load"
    /\ now = StartNow
    /\ preview = Preview_new
    /\ parse = Parse_idle
    /\ call = Call_idle

\* Enter in the List view: open_preview
ListKeyEnter ==
    /\ ListKey
    /\ LET st == clear_status(state)
           session == current_session(st)
       IN IF session = None
          THEN state' = st /\ preview' = preview
          ELSE IF Unwrap(session).path \in disk /\ FileReadable(Unwrap(session).path)
          THEN /\ preview' = [preview EXCEPT
                                 !.preview_lines =
                                      flat_map_lines(load_session_messages(
                                          FileLines(Unwrap(session).path))),
                                 !.preview_scroll = 0]
               /\ state' = [st EXCEPT !.view = "Preview"]
          ELSE /\ state' = set_status(st, Status("Failed to load", 0))
               /\ preview' = preview
    /\ UNCHANGED <<table_state, should_quit, needs_refresh, pc, disk, now, parse, call>>

\* handle_events on a key press in the Preview view reaches handle_preview_keys
PreviewKey == pc = "loop" /\ ~should_quit /\ state.view = "Preview"

\* the variables no preview handler writes
PreviewIdle ==
    UNCHANGED <<table_state, should_quit, needs_refresh, pc, disk, now, parse, call>>

PreviewSearchKeyEsc ==
    /\ PreviewKey /\ preview.preview_search_active
    /\ state' = clear_status(state)
    /\ preview' = clear_preview_search(preview)
    /\ PreviewIdle

PreviewSearchKeyEnter ==
    /\ PreviewKey /\ preview.preview_search_active
    /\ state' = clear_status(state)
    /\ preview' = [preview EXCEPT !.preview_search_active = FALSE]
    /\ PreviewIdle

PreviewSearchKeyBackspace ==
    /\ PreviewKey /\ preview.preview_search_active
    /\ state' = clear_status(state)
    /\ preview' = update_preview_search(
                     [preview EXCEPT !.preview_search = String_pop(@)])
    /\ PreviewIdle

PreviewSearchKeyChar ==
    /\ PreviewKey /\ preview.preview_search_active
    /\ \E c \in PreviewChars :
          /\ Append(preview.preview_search, c) \in PreviewQueries
          /\ preview' = update_preview_search(
                           [preview EXCEPT !.preview_search = Append(@, c)])
    /\ state' = clear_status(state)
    /\ PreviewIdle

\* 'q' | Esc
PreviewKeyClose ==
    /\ PreviewKey /\ ~preview.preview_search_active
    /\ state' = [clear_status(state) EXCEPT !.view = "List"]
    /\ preview' = preview_close(preview)
    /\ PreviewIdle

\* 'j' | Down
PreviewKeyDown ==
    /\ PreviewKey /\ ~preview.preview_search_active
    /\ state' = clear_status(state)
    /\ preview' = IF preview.preview_scroll + 1 < Len(preview.preview_lines)
                  THEN [preview EXCEPT !.preview_scroll = @ + 1]
                  ELSE preview
    /\ PreviewIdle

\* 'k' | Up
PreviewKeyUp ==
    /\ PreviewKey /\ ~preview.preview_search_active
    /\ state' = clear_status(state)
    /\ preview' = [preview EXCEPT !.preview_scroll = saturating_sub(@, 1)]
    /\ PreviewIdle

PreviewKeyPageDown ==
    /\ PreviewKey /\ ~preview.preview_search_active
    /\ state' = clear_status(state)
    /\ preview' = [preview EXCEPT !.preview_scroll =
                      Min(@ + PreviewPageSize,
                          saturating_sub(Len(preview.preview_lines), 1))]
    /\ PreviewIdle

PreviewKeyPageUp ==
    /\ PreviewKey /\ ~preview.preview_search_active
    /\ state' = clear_status(state)
    /\ preview' = [preview EXCEPT !.preview_scroll =
                      saturating_sub(@, PreviewPageSize)]
    /\ PreviewIdle

\* 'g' | Home
PreviewKeyHome ==
    /\ PreviewKey /\ ~preview.preview_search_active
    /\ state' = clear_status(state)
    /\ preview' = [preview EXCEPT !.preview_scroll = 0]
    /\ PreviewIdle

\* 'G' | End
PreviewKeyEnd ==
    /\ PreviewKey /\ ~preview.preview_search_active
    /\ state' = clear_status(state)
    /\ preview' = [preview EXCEPT !.preview_scroll =
                      saturating_sub(Len(preview.preview_lines), 1)]
    /\ PreviewIdle

\* '/'
PreviewKeySearch ==
    /\ PreviewKey /\ ~preview.preview_search_active
    /\ state' = clear_status(state)
    /\ preview' = [preview EXCEPT !.preview_search_active = TRUE]
    /\ PreviewIdle

\* 'n'
PreviewKeyNext ==
    /\ PreviewKey /\ ~preview.preview_search_active
    /\ state' = clear_status(state)
    /\ preview' = next_preview_match(preview)
    /\ PreviewIdle

\* 'N'
PreviewKeyPrev ==
    /\ PreviewKey /\ ~preview.preview_search_active
    /\ state' = clear_status(state)
    /\ preview' = prev_preview_match(preview)
    /\ PreviewIdle

\* handle_mouse in the Preview view
PreviewMouseScrollUp ==
    /\ PreviewKey
    /\ preview' = [preview EXCEPT !.preview_scroll = saturating_sub(@, MouseStep)]
    /\ UNCHANGED state
    /\ PreviewIdle

PreviewMouseScrollDown ==
    /\ PreviewKey
    /\ preview' = IF preview.preview_scroll + MouseStep < Len(preview.preview_lines)
                  THEN [preview EXCEPT !.preview_scroll = @ + MouseStep]
                  ELSE preview
    /\ UNCHANGED state
    /\ PreviewIdle

PreviewNext ==
    \/ LoadAllMetadata
    \/ ListKeyDown
    \/ ListKeyUp
    \/ ListKeyRefresh
    \/ ListKeyRefreshFailed
    \/ ListKeyEnter
    \/ PreviewSearchKeyEsc
    \/ PreviewSearchKeyEnter
    \/ PreviewSearchKeyBackspace
    \/ PreviewSearchKeyChar
    \/ PreviewKeyClose
    \/ PreviewKeyDown
    \/ PreviewKeyUp
    \/ PreviewKeyPageDown
    \/ PreviewKeyPageUp
    \/ PreviewKeyHome
    \/ PreviewKeyEnd
    \/ PreviewKeySearch
    \/ PreviewKeyNext
    \/ PreviewKeyPrev
    \/ PreviewMouseScrollUp
    \/ PreviewMouseScrollDown

PreviewSpec == PreviewInit /\ [][PreviewNext]_vars

\* ------------------------------------------ one call of a function
MaxText == 5

MaxLimit == 7

\* strings with white space and newlines, and one longer than every limit
TruncStrings ==
    UNION {[1..n -> {"a", " ", "\n"}] : n \in 0..MaxText}
        \cup {[k \in 1..(MaxLimit + 2) |-> IF k % 2 = 1 THEN "a" ELSE "b"]}

TruncArgs == [s : TruncStrings, max_chars : 0..MaxLimit]

\* str::to_uppercase
UpperChar(c) ==
    CASE c = "a" -> "A" [] c = "b" -> "B" [] c = "c" -> "C" [] c = "d" -> "D"
      [] c = "e" -> "E" [] c = "f" -> "F" [] c = "g" -> "G" [] c = "h" -> "H"
      [] c = "i" -> "I" [] c = "j" -> "J" [] c = "k" -> "K" [] c = "l" -> "L"
      [] c = "m" -> "M" [] c = "n" -> "N" [] c = "o" -> "O" [] c = "p" -> "P"
      [] c = "q" -> "Q" [] c = "r" -> "R" [] c = "s" -> "S" [] c = "t" -> "T"
      [] c = "u" -> "U" [] c = "v" -> "V" [] c = "w" -> "W" [] c = "x" -> "X"
      [] c = "y" -> "Y" [] c = "z" -> "Z"
      [] OTHER -> c

to_uppercase(s) == [k \in 1..Len(s) |-> UpperChar(s[k])]

\* every tag of SYSTEM_TAGS as listed, in upper and in lower case, alone and
\* followed by text, and texts that start with no tag
TagTexts ==
    UNION {{SYSTEM_TAGS[k] \o tail, to_uppercase(SYSTEM_TAGS[k]) \o tail,
            to_lowercase(SYSTEM_TAGS[k]) \o tail} :
              k \in 1..Len(SYSTEM_TAGS), tail \in {<<>>, <<"x">>}}
        \cup {<<>>, <<"a">>, <<"<", "h", "t", "m", "l", ">">>, <<"<", " ", "5">>}

ContentArgs ==
    {Text(t) : t \in TagTexts} \cup {Structured(<<TextBlock(t)>>) : t \in TagTexts}

\* session ids of up to, exactly and over 12 bytes, with and without
\* multi-byte characters
SessionIds ==
    { <<"a", "b">>,
      [k \in 1..ShortIdLen |-> "a"],
      [k \in 1..(ShortIdLen + 1) |-> IF k = 1 THEN "b" ELSE "a"],
      [k \in 1..7 |-> EAcute],
      [k \in 1..7 |-> IF k = 1 THEN "a" ELSE EAcute] }

LabelText(c) == [k \in 1..(PreviewLabelMax + 1) |-> c]

SessionArgs ==
    [id : SessionIds,
     custom_title : {None, Some(<<"T">>), Some(LabelText("T"))},
     first_message : {None, Some(<<"F">>)},
     summary : {None, Some(<<"S", "\n">>)},
     message_count : {None, Some(0), Some(1), Some(2)}]

\* the values of one key of a tool input: none, a number, a short string, a
\* string of 60 characters and one of 61; c tells the keys apart
KeyValues(c) ==
    { None, Some(JsonNumber), Some(JsonString(<<c>>)),
      Some(JsonString([k \in 1..ToolPreviewMax |-> c])),
      Some(JsonString([k \in 1..(ToolPreviewMax + 1) |-> c])) }

ToolInputs ==
    {None, Some(JsonNumber)} \cup
    {Some(JsonObject([key \in PreviewKeys |->
                         CASE key = "command" -> c
                           [] key = "pattern" -> p
                           [] key = "file_path" -> f])) :
        c \in KeyValues("c"), p \in KeyValues("p"), f \in KeyValues("f")}

\* the elements of a tool result array: objects whose text is a short
\* string, a second short string, a string of MaxText + 196 characters, a
\* number, or missing, and an element that is not an object
ResultItems ==
    { JsonObject([key \in {"text"} |-> Some(JsonString(<<"r">>))]),
      JsonObject([key \in {"text"} |-> Some(JsonString(<<"s", "t">>))]),
      JsonObject([key \in {"text"} |->
          Some(JsonString([k \in 1..(MaxText + 196) |-> "l"]))]),
      JsonObject([key \in {"text"} |-> Some(JsonNumber)]),
      JsonObject([key \in {"type"} |-> Some(JsonString(<<"i">>))]),
      JsonNumber }

\* the payloads of a tool result: arrays of up to two elements, strings
\* up to, of and over 200 characters, a number and an object
ResultPayloads ==
    {JsonArray(<<>>)}
        \cup {JsonArray(<<x>>) : x \in ResultItems}
        \cup {JsonArray(<<x, y>>) : x \in ResultItems, y \in ResultItems}
        \cup {JsonString([k \in 1..n |-> "p"]) :
                  n \in {0, 1, ToolResultMax, ToolResultMax + 1}}
        \cup {JsonNumber,
              JsonObject([key \in {"text"} |-> Some(JsonString(<<"o">>))])}

BlockArgs ==
    {ToolUseBlock(<<"B">>, input) : input \in ToolInputs}
        \cup {ToolResultBlock(content) : content \in ResultPayloads}

CallInit ==
    /\ state = UiState_new(<<>>)
    /\ table_state = 0
    /\ should_quit = FALSE
    /\ needs_refresh = FALSE
    /\ pc = "loop"
    /\ disk = {}
    /\ now = StartNow
    /\ preview = Preview_new
    /\ parse = Parse_idle
    /\ \/ \E arg \in TruncArgs, fn \in {"truncate_message", "truncate_result"} :
             call = [Call_idle EXCEPT !.fn = fn, !.arg = arg]
       \/ \E arg \in ContentArgs :
             call = [Call_idle EXCEPT !.fn = "is_system_content", !.arg = arg]
       \/ \E arg \in SessionArgs :
             call = [Call_idle EXCEPT !.fn = "get_session_preview", !.arg = arg]
       \/ \E arg \in BlockArgs :
             call = [Call_idle EXCEPT !.fn = "as_text", !.arg = arg]

CallIdle ==
    UNCHANGED <<state, table_state, should_quit, needs_refresh, pc, disk, now,
                preview, parse>>

CallTruncateMessage ==
    /\ call.fn = "truncate_message" /\ ~call.done
    /\ call' = [call EXCEPT
                   !.done = TRUE,
                   !.result = truncate_message(call.arg.s, call.arg.max_chars)]
    /\ CallIdle

CallTruncateResult ==
    /\ call.fn = "truncate_result" /\ ~call.done
    /\ call' = [call EXCEPT
                   !.done = TRUE,
                   !.result = truncate_result(call.arg.s, call.arg.max_chars)]
    /\ CallIdle

CallIsSystemContent ==
    /\ call.fn = "is_system_content" /\ ~call.done
    /\ call' = [call EXCEPT !.done = TRUE,
                            !.result = is_system_content(call.arg)]
    /\ CallIdle

CallGetSessionPreview ==
    /\ call.fn = "get_session_preview" /\ ~call.done
    /\ call' = [call EXCEPT !.done = TRUE,
                            !.result = get_session_preview(call.arg)]
    /\ CallIdle

CallAsText ==
    /\ call.fn = "as_text" /\ ~call.done
    /\ call' = [call EXCEPT !.done = TRUE,
                            !.result = ContentBlock_as_text(call.arg)]
    /\ CallIdle

CallNext ==
    \/ CallTruncateMessage
    \/ CallTruncateResult
    \/ CallIsSystemContent
    \/ CallGetSessionPreview
    \/ CallAsText

CallSpec == CallInit /\ [][CallNext]_vars

\* ----------------------------------------- main --prune-empty (main.rs)
EmptyLabel == <<"(", "e", "m", "p", "t", "y", ")">>

\* what a session file can hold: nothing, a user message, a message without
\* text, a summary, a custom title, and each of the three with the text
\* "(empty)"
PruneFiles ==
    { <<>>,
      <<JsonLine(Some("user"), TRUE, <<>>, Some(1), Text(<<"h", "i">>))>>,
      <<JsonLine(Some("user"), TRUE, <<>>, Some(1), Structured(<<>>))>>,
      <<JsonLine(Some("summary"), TRUE, <<"S">>, None, NoContent)>>,
      <<JsonLine(Some("custom-title"), TRUE, <<"T">>, None, NoContent)>>,
      <<JsonLine(Some("user"), TRUE, <<>>, Some(1), Text(EmptyLabel))>>,
      <<JsonLine(Some("summary"), TRUE, EmptyLabel, None, NoContent)>>,
      <<JsonLine(Some("custom-title"), TRUE, EmptyLabel, None, NoContent)>> }

\* the sessions of a scan with every derived field of Session::new
with_derived(sessions) ==
    [k \in 1..Len(sessions) |-> sessions[k] @@ Derived_new]

\* let _ = load_session_metadata(session) on a file with the given lines
load_metadata_of(session, readable, lines) ==
    IF ~readable THEN session
    ELSE store_metadata(session, metadata_loop(Acc_new, lines))

\* main, --prune-empty: the loop that collects empty_sessions; content[p] is
\* the file at path p
empty_sessions(sessions, content) ==
    SelectSeq([k \in 1..Len(sessions) |->
                  load_metadata_of(sessions[k], content[sessions[k].path].readable,
                                   content[sessions[k].path].lines)],
              LAMBDA x : get_session_preview(x) = EmptyLabel)

\* the sessions of a sequence for which delete_session(session).is_ok()
deleted_of(sessions, files) ==
    SelectSeq(sessions, LAMBDA x : x.path \in files /\ FileDeletable(x.path))

PruneInit ==
    /\ state = UiState_new(<<>>)
    /\ table_state = 0
    /\ should_quit = FALSE
    /\ needs_refresh = FALSE
    /\ pc = "main"
    /\ now = StartNow
    /\ preview = Preview_new
    /\ parse = Parse_idle
    /\ \E files \in SUBSET Paths :
       \E dir \in DirOrders(files) :
       \E content \in [files -> [lines : PruneFiles, readable : BOOLEAN]] :
       \E dry_run \in BOOLEAN :
          /\ disk = files
          /\ call = [Call_idle EXCEPT
                        !.fn = "prune_empty",
                        !.arg = [sessions |-> with_derived(scan_sessions(dir)),
                                 content |-> content, dry_run |-> dry_run]]

PruneIdle ==
    UNCHANGED <<state, table_state, should_quit, needs_refresh, now, preview,
                parse>>

\* if empty_sessions.is_empty() { println!("No empty sessions found."); .. }
PruneNoneFound ==
    /\ pc = "main" /\ call.fn = "prune_empty" /\ ~call.done
    /\ empty_sessions(call.arg.sessions, call.arg.content) = <<>>
    /\ call' = [call EXCEPT !.done = TRUE,
                            !.result = [selected |-> <<>>, listed |-> <<>>,
                                        deleted |-> 0]]
    /\ pc' = "exit"
    /\ UNCHANGED disk
    /\ PruneIdle

\* if cli.dry_run { println!("Would delete ..."); for session in .. }
PruneDryRun ==
    /\ pc = "main" /\ call.fn = "prune_empty" /\ ~call.done
    /\ empty_sessions(call.arg.sessions, call.arg.content) # <<>>
    /\ call.arg.dry_run
    /\ call' = [call EXCEPT
                   !.done = TRUE,
                   !.result =
                       [selected |-> empty_sessions(call.arg.sessions, call.arg.content),
                        listed |-> empty_sessions(call.arg.sessions, call.arg.content),
                        deleted |-> 0]]
    /\ pc' = "exit"
    /\ UNCHANGED disk
    /\ PruneIdle

\* the loop over empty_sessions that calls delete_session
PruneDelete ==
    /\ pc = "main" /\ call.fn = "prune_empty" /\ ~call.done
    /\ empty_sessions(call.arg.sessions, call.arg.content) # <<>>
    /\ ~call.arg.dry_run
    /\ LET selected == empty_sessions(call.arg.sessions, call.arg.content)
       IN /\ call' = [call EXCEPT
                         !.done = TRUE,
                         !.result = [selected |-> selected, listed |-> <<>>,
                                     deleted |-> Len(deleted_of(selected, disk))]]
          /\ disk' = delete_sessions(disk, {selected[k].path : k \in 1..Len(selected)})
    /\ pc' = "exit"
    /\ PruneIdle

PruneNext == PruneNoneFound \/ PruneDryRun \/ PruneDelete

PruneSpec == PruneInit /\ [][PruneNext]_vars

\* ------------------------------ export and archive (app.rs, actions/)
\* variant: only the selected sessions the filter shows
get_selected_sessions_visible(st) ==
    {At(st.sessions, idx) :
        idx \in {i \in st.selected :
                    i < Len(st.sessions) /\ i \in Range(st.filtered_indices)}}

\* UiState::get_selected_sessions: filter_map over sessions.get(idx); the
\* HashSet is iterated in no fixed order, the sessions are kept as a set
get_selected_sessions(st) ==
    {At(st.sessions, idx) : idx \in {i \in st.selected : i < Len(st.sessions)}}

\* do_export / do_archive: let sessions = if self.state.selected.is_empty() ..
action_sessions(st) ==
    IF st.selected = {}
    THEN (IF IsSome(current_session(st)) THEN {Unwrap(current_session(st))} ELSE {})
    ELSE get_selected_sessions(st)

\* actions::export_session_markdown(session, &dir).is_ok(): the session file
\* is opened by load_session_messages, then the output file is written
export_session_markdown(session, files) ==
    session.path \in files /\ FileReadable(session.path)

\* actions::archive_session(session, &dir).is_ok(): the session file is
\* appended to the archive
archive_session(session, files) ==
    session.path \in files /\ FileReadable(session.path)

\* App::do_export; dir_ok tells whether get_default_export_dir succeeds
do_export(st, files, dir_ok) ==
    IF action_sessions(st) = {} THEN set_status(st, Status("No sessions to export", 0))
    ELSE IF dir_ok
    THEN set_status(st, Status("Exported",
             Cardinality({x \in action_sessions(st) : export_session_markdown(x, files)})))
    ELSE set_status(st, Status("Export failed", 0))

\* App::do_archive; dir_ok tells whether get_default_archive_dir succeeds
do_archive(st, files, dir_ok) ==
    IF action_sessions(st) = {} THEN set_status(st, Status("No sessions to archive", 0))
    ELSE IF dir_ok
    THEN set_status(st, Status("Archived",
             Cardinality({x \in action_sessions(st) : archive_session(x, files)})))
    ELSE set_status(st, Status("Archive failed", 0))

\* 'e' in the List view; call keeps the sessions handed to the action and
\* the files written to the export directory
ListKeyExport ==
    /\ ListKey
    /\ \E dir_ok \in BOOLEAN :
          /\ state' = do_export(clear_status(state), disk, dir_ok)
          /\ call' = [fn |-> "do_export",
                      arg |-> {x.path : x \in action_sessions(state)},
                      done |-> TRUE,
                      result |-> IF dir_ok
                                 THEN {x.path : x \in
                                         {y \in action_sessions(state) :
                                             export_session_markdown(y, disk)}}
                                 ELSE {}]
    /\ UNCHANGED <<table_state, should_quit, needs_refresh, pc, disk, now, preview, parse>>

\* 'z' in the List view
ListKeyArchive ==
    /\ ListKey
    /\ \E dir_ok \in BOOLEAN :
          /\ state' = do_archive(clear_status(state), disk, dir_ok)
          /\ call' = [fn |-> "do_archive",
                      arg |-> {x.path : x \in action_sessions(state)},
                      done |-> TRUE,
                      result |-> IF dir_ok
                                 THEN {x.path : x \in
                                         {y \in action_sessions(state) :
                                             archive_session(y, disk)}}
                                 ELSE {}]
    /\ UNCHANGED <<table_state, should_quit, needs_refresh, pc, disk, now, preview, parse>>

\* the keys that select, filter, delete, export and archive
ActionNext ==
    \/ LoadAllMetadata
    \/ ListKeyDown
    \/ ListKeySpace
    \/ ListKeySelectAll
    \/ ListKeyClearSelection
    \/ ListKeyProject
    \/ ListKeySearch
    \/ SearchKeyChar
    \/ SearchKeyEnter
    \/ ListKeyDelete
    \/ ConfirmKeyYes
    \/ ConfirmKeyNo
    \/ ListKeyExport
    \/ ListKeyArchive

ActionSpec == Init /\ [][ActionNext]_vars

\* ------------------------------------------------------------ properties
\* The statements below are written against the state, not with the
\* operators of the model: Matches is the filter as the design states it.

ProjectOk(session, filter) ==
    filter.project = None \/ session.project = Unwrap(filter.project)

AgeOk(session, filter, t) ==
    filter.age_days = None
    \/ num_days(t - session.modified) >= Unwrap(filter.age_days)

FallbackText(session) ==
    session.project \o <<" ">> \o session.id \o <<" ">>
    \o (IF session.summary = None THEN <<>> ELSE Unwrap(session.summary))
    \o <<" ">>
    \o (IF session.first_message = None THEN <<>> ELSE Unwrap(session.first_message))

QueryOk(session, filter) ==
    filter.query = <<>>
    \/ IF session.search_content # None
       THEN contains(Unwrap(session.search_content), to_lowercase(filter.query))
       ELSE contains(to_lowercase(FallbackText(session)), to_lowercase(filter.query))

Matches(session, filter, t) ==
    ProjectOk(session, filter) /\ AgeOk(session, filter, t) /\ QueryOk(session, filter)

\* the indices of the sessions of st that match its filter at time t
MatchingIndices(st, t) ==
    {i \in 0..(Len(st.sessions) - 1) : Matches(At(st.sessions, i), st.filter, t)}

NoRepeats(v) == \A j, k \in 1..Len(v) : j # k => v[j] # v[k]

Ascending(v) == \A k \in 1..(Len(v) - 1) : v[k] < v[k + 1]

\* v and w hold the same elements the same number of times
IsPermutation(v, w) ==
    /\ Len(v) = Len(w)
    /\ \A x \in Range(v) \cup Range(w) :
          Cardinality({k \in 1..Len(v) : v[k] = x})
            = Cardinality({k \in 1..Len(w) : w[k] = x})

\* the elements of v at the positions outside indices, in their order
KeptPositions(v, indices) == {k \in 1..Len(v) : (k - 1) \notin indices}

WithoutIndices(v, indices) ==
    [j \in 1..Cardinality(KeptPositions(v, indices)) |->
        v[CHOOSE k \in KeptPositions(v, indices) :
            Cardinality({m \in KeptPositions(v, indices) : m < k}) = j - 1]]

StrictlySortedNames(names) ==
    \A k \in 1..(Len(names) - 1) : str_cmp(names[k], names[k + 1]) = "Less"

\* C1: in every state reachable by the ViewState operations the cursor is a
\* valid position of filtered_indices, or 0 when filtered_indices is empty.
C1_CursorValid ==
    \/ state.cursor < Len(state.filtered_indices)
    \/ (state.filtered_indices = <<>> /\ state.cursor = 0)

\* C1 witness: a filter emptied the list of a collection in which a session
\* had been selected, and the cursor stands at 0.
C1_Witness ==
    /\ state.filtered_indices = <<>>
    /\ Len(state.sessions) >= 2
    /\ state.selected # {}
    /\ state.cursor = 0

\* C2: after every ViewState operation every entry of filtered_indices is a
\* valid index of the collection and no entry appears twice.
C2_IndicesValid ==
    /\ \A k \in 1..Len(state.filtered_indices) :
          state.filtered_indices[k] < Len(state.sessions)
    /\ NoRepeats(state.filtered_indices)

\* C2 witness: sessions were removed and the list still shows the rest.
C2_Witness ==
    /\ Len(state.sessions) < MaxSessions
    /\ state.filtered_indices # <<>>
    /\ Len(state.filtered_indices) = Len(state.sessions)

\* C3: every index in selected is a valid index of the collection.
C3_SelectedValid == \A i \in state.selected : i < Len(state.sessions)

\* C3 witness: a selected session is hidden by the filter.
C3_Witness ==
    \E i \in state.selected : i \notin Range(state.filtered_indices)

\* C4 as claimed: after remove_sessions({i}) and apply_filters, no entry of
\* filtered_indices equals i and selected does not contain i.
C4_IndexGone ==
    [][\A i \in 0..(MaxSessions - 1) :
          (i < Len(state.sessions) /\ RemoveSessionsOf({i})) =>
             /\ i \notin Range(apply_filters(state', now').filtered_indices)
             /\ i \notin apply_filters(state', now').selected]_vars

\* C4 amended: after remove_sessions({i}) and apply_filters, no entry of
\* filtered_indices denotes the session that was at index i (the index i
\* itself now denotes the session that followed it), and selected does not
\* contain i.
C4_SessionGone ==
    [][\A i \in 0..(MaxSessions - 1) :
          (i < Len(state.sessions) /\ RemoveSessionsOf({i})) =>
             LET post == apply_filters(state', now') IN
             /\ \A k \in Range(post.filtered_indices) :
                   At(post.sessions, k).path # At(state.sessions, i).path
             /\ i \notin post.selected]_vars

\* C4 witness: one session was removed and index 0 is still listed.
C4_Witness ==
    /\ Len(state.sessions) = MaxSessions - 1
    /\ state.selected = {}
    /\ 0 \in Range(state.filtered_indices)

\* C5: remove_sessions(indices) leaves the collection without the sessions
\* at the in-range indices, the rest in their order; selected is empty,
\* filtered_indices is recomputed against the new collection and projects is
\* the sorted duplicate-free list of the remaining project names.
\* (remove_sessions can be called in every state: the statement is about its
\* result post from every reachable state and every index set.)
C5_RemoveSessions ==
    \A indices \in IndexSets :
        LET post == remove_sessions(state, indices, now) IN
        /\ post.sessions = WithoutIndices(state.sessions, indices)
        /\ post.selected = {}
        /\ Range(post.filtered_indices) = MatchingIndices(post, now)
        /\ Ascending(post.filtered_indices)
        /\ Range(post.projects) =
              {post.sessions[k].project : k \in 1..Len(post.sessions)}
        /\ StrictlySortedNames(post.projects)

\* C5 witness: a removal took the last session of a project.
C5_Witness ==
    /\ Len(state.sessions) = MaxSessions - 1
    /\ Len(state.projects) < Cardinality({FileProject(p) : p \in Paths})
    /\ Len(state.projects) = 1

\* C6 as claimed: in every reachable state the entries of filtered_indices
\* are ordered by the active sort_field and sort_reversed.
C6_SortedProjection ==
    \A k \in 1..(Len(state.filtered_indices) - 1) :
        sort_closure(state.sessions, state.sort_field, state.sort_reversed,
                     state.filtered_indices[k], state.filtered_indices[k + 1])
          # "Greater"

\* C7: after apply_filters, filtered_indices holds exactly the indices of
\* the sessions that pass the project, age and query tests, each once.
C7_FilterExact ==
    [][OpApplyFilters =>
          /\ Range(state'.filtered_indices) = MatchingIndices(state', now')
          /\ NoRepeats(state'.filtered_indices)]_vars

\* C7 witness: an age limit and a query are set and the list holds the
\* matching sessions, some but not all.
C7_Witness ==
    /\ state.filter.age_days # None
    /\ state.filter.query # <<>>
    /\ state.filtered_indices # <<>>
    /\ Len(state.filtered_indices) < Len(state.sessions)
    /\ Range(state.filtered_indices) = MatchingIndices(state, now)

\* the handled events that change the collection or the filter
MutatingEvent ==
    \/ SearchKeyChar
    \/ SearchKeyBackspace
    \/ SearchKeyEsc
    \/ ListKeyProject
    \/ ConfirmKeyYes
    \/ ListKeyRefresh

\* C8: after every handled event that changes the collection or the filter,
\* the indices in filtered_indices are those of the sessions of the current
\* collection that match the current filter.
C8_NeverStale ==
    [][\/ Range(state'.filtered_indices) = MatchingIndices(state', now')
       \/ ~MutatingEvent]_vars

\* C8 witness: a deletion was confirmed while a query hides the remaining
\* session.
C8_Witness ==
    /\ state.status_message = Some(Status("Deleted", 1))
    /\ state.filter.query # <<>>
    /\ state.sessions # <<>>
    /\ state.filtered_indices = <<>>

\* C9: apply_filters is idempotent: with the clock, collection and filter
\* fixed, a second call leaves filtered_indices, cursor and scroll_offset as
\* the first call left them.
C9_Idempotent ==
    [][OpApplyFilters =>
          LET again == apply_filters(state', now') IN
          /\ again.filtered_indices = state'.filtered_indices
          /\ again.cursor = state'.cursor
          /\ again.scroll_offset = state'.scroll_offset]_vars

\* C9 witness: a project filter was applied after the clock advanced and the
\* cursor was pulled back to the one session left.
C9_Witness ==
    /\ state.filter.project # None
    /\ now > StartNow
    /\ Len(state.sessions) >= 2
    /\ Len(state.filtered_indices) = 1
    /\ state.cursor = 0

SortEvent == OpApplySort \/ OpCycleSortField \/ OpToggleSortDirection

\* C10: apply_sort, cycle_sort_field and toggle_sort_direction leave
\* filtered_indices a permutation of what it was, and leave the collection,
\* selected and the filter unchanged.
C10_SortPermutes ==
    [][SortEvent =>
          /\ IsPermutation(state'.filtered_indices, state.filtered_indices)
          /\ state'.sessions = state.sessions
          /\ state'.selected = state.selected
          /\ state'.filter = state.filter]_vars

\* C10 witness: a sort put a later session of the collection first.
C10_Witness ==
    /\ state.status_message = Some(Status("Sort", 0))
    /\ Len(state.filtered_indices) >= 2
    /\ state.filtered_indices[1] > state.filtered_indices[2]

\* ------------------------------------------- sorting, cursor, selection
StrLeq(x, y) == str_cmp(x, y) # "Greater"

\* the Name key as the design states it: summary, else first message, else ""
NameKey(session) ==
    IF session.summary # None THEN session.summary[1]
    ELSE IF session.first_message # None THEN session.first_message[1]
    ELSE <<>>

\* x before y is allowed by the active sort of st (x, y sessions)
KeyOrdered(st, x, y) ==
    LET first == IF st.sort_reversed THEN y ELSE x
        second == IF st.sort_reversed THEN x ELSE y
    IN CASE st.sort_field = "Date" -> first.modified >= second.modified
         [] st.sort_field = "Size" -> first.size_bytes >= second.size_bytes
         [] st.sort_field = "Project" -> StrLeq(first.project, second.project)
         [] st.sort_field = "Name" -> StrLeq(NameKey(first), NameKey(second))

AdjacentOrdered(st) ==
    \A k \in 1..(Len(st.filtered_indices) - 1) :
        KeyOrdered(st, At(st.sessions, st.filtered_indices[k]),
                       At(st.sessions, st.filtered_indices[k + 1]))

ListLen(st) == Len(st.filtered_indices)

Max(a, b) == IF a > b THEN a ELSE b

\* C12: cursor movement saturates: up and down stop at 0 and len-1, top sets
\* 0, bottom sets len-1 (unchanged when the list is empty), page_up(n) gives
\* max(cursor-n, 0) and page_down(n) gives min(cursor+n, len-1), 0 when empty.
C12_CursorSaturates ==
    [][/\ OpCursorUp => state'.cursor = Max(state.cursor - 1, 0)
       /\ OpCursorDown =>
             state'.cursor = IF ListLen(state) = 0 THEN state.cursor
                             ELSE Min(state.cursor + 1, ListLen(state) - 1)
       /\ OpCursorTop => state'.cursor = 0
       /\ OpCursorBottom =>
             state'.cursor = IF ListLen(state) = 0 THEN state.cursor
                             ELSE ListLen(state) - 1
       /\ \A n \in PageSizes :
             /\ PageUpBy(n) => state'.cursor = Max(state.cursor - n, 0)
             /\ PageDownBy(n) =>
                   state'.cursor = IF ListLen(state) = 0 THEN 0
                                   ELSE Min(state.cursor + n, ListLen(state) - 1)]_vars

\* C12 witness: the cursor stands on the last of several rows.
C12_Witness ==
    /\ state.cursor >= 1
    /\ state.cursor = ListLen(state) - 1
    /\ state.scroll_offset = 0

\* C13: select_all adds to selected exactly the indices in filtered_indices:
\* what was selected stays selected and hidden sessions are not added.
C13_SelectAll ==
    [][\/ state'.selected = state.selected \cup Range(state.filtered_indices)
       \/ ~OpSelectAll]_vars

\* C13 witness: all the sessions shown are selected and a hidden one is not.
C13_Witness ==
    /\ state.filtered_indices # <<>>
    /\ Range(state.filtered_indices) \subseteq state.selected
    /\ \E i \in 0..(Len(state.sessions) - 1) :
          i \notin Range(state.filtered_indices) /\ i \notin state.selected

\* the operations that edit the query, filter, sort or move the cursor
ViewEvent ==
    \/ OpQueryChar
    \/ OpQueryBackspace
    \/ OpQueryClear
    \/ OpApplyFilters
    \/ SortEvent
    \/ OpCycleProjectFilter
    \/ OpCursorUp
    \/ OpCursorDown
    \/ OpCursorTop
    \/ OpCursorBottom
    \/ OpPageUp
    \/ OpPageDown

\* C14: query edits, apply_filters, apply_sort, project-filter cycling and
\* cursor moves leave selected as it is, also for indices filtered out of
\* view; toggle_selection changes at most the index under the cursor.
C14_SelectionKept ==
    [][/\ (state'.selected = state.selected \/ ~ViewEvent)
       /\ OpToggleSelection =>
             \A i \in state.selected \cup state'.selected :
                 (i \in state.selected) # (i \in state'.selected)
                    => current_session_index(state) = Some(i)]_vars

\* C14 witness: under a query and a sort other than the default, a selected
\* session is hidden.
C14_Witness ==
    /\ state.filter.query # <<>>
    /\ state.sort_field # "Date"
    /\ \E i \in state.selected : i \notin Range(state.filtered_indices)

\* k successive calls of cycle_project_filter
RECURSIVE CycleTimes(_, _, _)
CycleTimes(st, k, t) ==
    IF k = 0 THEN st ELSE CycleTimes(cycle_project_filter(st, t), k - 1, t)

\* C15: from no project filter and n projects, the k-th successive
\* cycle_project_filter call sets filter.project to the k-th project of the
\* sorted list (byte-wise lexicographic order), the (n+1)-th call sets it
\* back to none, and the filter is applied at every step.
C15_ProjectCycle ==
    (state.filter.project = None /\ state.project_filter_index = 0) =>
        /\ StrictlySortedNames(state.projects)
        /\ \A k \in 1..(Len(state.projects) + 1) :
              LET at == CycleTimes(state, k, now) IN
              /\ at.filter.project =
                    IF k <= Len(state.projects) THEN Some(state.projects[k])
                    ELSE None
              /\ Range(at.filtered_indices) = MatchingIndices(at, now)
        /\ CycleTimes(state, Len(state.projects) + 1, now).filter = state.filter

\* C15 witness: the cycle stands at the last of several projects.
C15_Witness ==
    /\ Len(state.projects) >= 2
    /\ state.project_filter_index = Len(state.projects)
    /\ state.filter.project = Some(state.projects[Len(state.projects)])

\* ------------------------------------------------------ scans of a file
\* a line that is empty, is not valid JSON (or not text at all), does not fit
\* the record shape of its discriminator, or carries an unknown discriminator
Skipped(line) ==
    \/ line.raw # "json"
    \/ line.tag = None
    \/ Unwrap(line.tag) \notin KnownTags
    \/ ~line.fits

WithoutSkipped(lines) == SelectSeq(lines, LAMBDA line : ~Skipped(line))

\* C19: lines that are empty, not JSON, of the wrong shape or of an unknown
\* discriminator contribute nothing and never stop a scan: a scan fails only
\* when the file cannot be opened, every line of an opened file is read, and
\* what load_session_metadata and load_session_messages have gathered after
\* any number of lines is what they gather from those lines with the skipped
\* ones removed.
C19_SkipsBadLines ==
    /\ parse.status = "err" => ~parse.readable
    /\ parse.status = "ok" => parse.pos = Len(parse.lines)
    /\ parse.status \in {"reading", "ok"} =>
          LET read == SubSeq(parse.lines, 1, parse.pos) IN
          /\ parse.fn = "metadata" =>
                /\ parse.acc = metadata_loop(Acc_new, WithoutSkipped(read))
                /\ metadata_result(parse.acc) = scan_metadata(WithoutSkipped(read))
          /\ parse.fn = "messages" =>
                parse.messages = load_session_messages(WithoutSkipped(read))

\* a finished metadata scan of a file whose first and last lines are skipped
\* ones and whose middle line is a message
C19_Witness ==
    /\ parse.status = "ok"
    /\ parse.fn = "metadata"
    /\ Len(parse.lines) = 3
    /\ Skipped(parse.lines[1])
    /\ Skipped(parse.lines[3])
    /\ parse.lines[1] # parse.lines[3]
    /\ parse.acc.message_count = 1

\* a decodable User or Assistant record
IsMessageRecord(line) ==
    /\ ~Skipped(line)
    /\ Unwrap(line.tag) \in {"user", "assistant"}

\* C20: after a successful metadata scan message_count is the number of
\* decodable User and Assistant records of the file, whatever their content;
\* every other record and every malformed line adds nothing.
C20_MessageCount ==
    (parse.status = "ok" /\ parse.fn = "metadata") =>
        metadata_result(parse.acc).message_count =
            Some(Cardinality({k \in 1..Len(parse.lines) :
                                 IsMessageRecord(parse.lines[k])}))

\* a User record with system-injected content, an Assistant record without
\* text and a System record: two messages
C20_Witness ==
    /\ parse.status = "ok"
    /\ parse.fn = "metadata"
    /\ Len(parse.lines) = 3
    /\ IsMessageRecord(parse.lines[1])
    /\ Unwrap(parse.lines[1].tag) = "user"
    /\ is_system_content(parse.lines[1].content)
    /\ IsMessageRecord(parse.lines[2])
    /\ AssistantMessage_as_text(parse.lines[2].content) = <<>>
    /\ parse.lines[3].tag = Some("system")
    /\ parse.acc.message_count = 2

\* ------------------------------------------------------- preview search
\* the indices of the lines of pv whose lowercased text contains the
\* lowercased query
PreviewMatching(pv) ==
    {i \in 0..(Len(pv.preview_lines) - 1) :
        contains(to_lowercase(At(pv.preview_lines, i)),
                 to_lowercase(pv.preview_search))}

\* C16: update_preview_search, on any query over the lines of any preview,
\* leaves in preview_matches the ascending list of exactly the indices of the
\* lines that contain the query, letter case aside (none for the empty
\* query), sets preview_match_index to 0, moves preview_scroll to the first
\* match when there is one and leaves it alone otherwise.
C16_UpdatePreviewSearch ==
    \A q \in PreviewQueries :
        LET pre == [preview EXCEPT !.preview_search = q]
            post == update_preview_search(pre)
        IN /\ Range(post.preview_matches) =
                  IF q = <<>> THEN {} ELSE PreviewMatching(pre)
           /\ Ascending(post.preview_matches)
           /\ post.preview_match_index = 0
           /\ post.preview_scroll =
                  IF post.preview_matches # <<>>
                  THEN At(post.preview_matches, 0) ELSE pre.preview_scroll
           /\ post.preview_lines = pre.preview_lines
           /\ post.preview_search = q
           /\ post.preview_search_active = pre.preview_search_active

\* "B" typed into the search of a preview whose third line is "B"
C16_Witness ==
    /\ state.view = "Preview"
    /\ preview.preview_search_active
    /\ preview.preview_search = <<"B">>
    /\ preview.preview_matches = <<2>>
    /\ preview.preview_scroll = 2

RECURSIVE NextTimes(_, _)
NextTimes(pv, n) ==
    IF n = 0 THEN pv ELSE NextTimes(next_preview_match(pv), n - 1)

\* C17: with k > 0 matches next_preview_match moves preview_match_index to
\* (index + 1) mod k and prev_preview_match to (index - 1) mod k, each moving
\* preview_scroll to that match, and k calls of next come back to the match
\* they started from; with no match both change nothing.
C17_MatchCycle ==
    LET k == Len(preview.preview_matches)
        index == preview.preview_match_index
        next == next_preview_match(preview)
        prev == prev_preview_match(preview)
    IN IF k > 0
       THEN /\ next = [preview EXCEPT
                          !.preview_match_index = (index + 1) % k,
                          !.preview_scroll =
                               At(preview.preview_matches, (index + 1) % k)]
            /\ prev = [preview EXCEPT
                          !.preview_match_index = (index + k - 1) % k,
                          !.preview_scroll =
                               At(preview.preview_matches, (index + k - 1) % k)]
            /\ NextTimes(preview, k).preview_match_index = index
            /\ NextTimes(preview, k).preview_scroll =
                   At(preview.preview_matches, index)
       ELSE next = preview /\ prev = preview

\* on the last of three matches, where next wraps to the first
C17_Witness ==
    /\ state.view = "Preview"
    /\ Len(preview.preview_matches) = 3
    /\ preview.preview_match_index = 2
    /\ preview.preview_scroll = At(preview.preview_matches, 2)

SearchDiscarded(pv) ==
    /\ pv.preview_search = <<>>
    /\ ~pv.preview_search_active
    /\ pv.preview_matches = <<>>
    /\ pv.preview_match_index = 0

\* C18: whenever the preview is closed (view from Preview to List) and
\* whenever a preview is opened (view from List to Preview), after any events,
\* the preview search is empty, inactive, without matches and at index 0.
C18_SearchDiscarded ==
    [][\/ SearchDiscarded(preview')
       \/ state'.view = state.view
       \/ "Preview" \notin {state.view, state'.view}]_vars

\* a closed preview that had been scrolled
C18_Witness ==
    /\ state.view = "List"
    /\ preview.preview_scroll > 0
    /\ preview.preview_lines = <<>>
    /\ SearchDiscarded(preview)

\* the User records of lines that decode and are not system content
RealUsers(lines) ==
    SelectSeq(lines, LAMBDA line :
        /\ IsMessageRecord(line)
        /\ Unwrap(line.tag) = "user"
        /\ ~is_system_content(line.content))

\* s without the white space around it and with its newlines as spaces
Flat(s) == [k \in 1..Len(trim(s)) |-> IF trim(s)[k] = "\n" THEN " " ELSE trim(s)[k]]

\* C21: while and after a scan first_message comes from the first User record
\* in file order that is not system content (system-injected and empty User
\* records before it do not set it, later ones do not replace it) and is unset
\* when there is none; its value has spaces for newlines and at most 100
\* characters, a longer text being cut to its first 97 characters and "...".
C21_FirstMessage ==
    parse.status \in {"reading", "ok"} =>
        LET users == RealUsers(SubSeq(parse.lines, 1, parse.pos))
            value == parse.acc.first_user_message
            text == Flat(MessageContent_as_text(users[1].content))
        IN /\ users = <<>> => value = None
           /\ users # <<>> =>
                 /\ IsSome(value)
                 /\ Len(Unwrap(value)) <= 100
                 /\ \A k \in 1..Len(Unwrap(value)) : Unwrap(value)[k] # "\n"
                 /\ Unwrap(value) =
                        IF Len(text) <= 100 THEN text
                        ELSE SubSeq(text, 1, 97) \o <<".", ".", ".">>
           /\ parse.status = "ok" => parse.session.first_message = value

\* a system-injected User record, then a message of more than 100 characters,
\* then a short one: first_message is the long one, cut
C21_Witness ==
    /\ parse.status = "ok"
    /\ Len(parse.lines) = 3
    /\ IsMessageRecord(parse.lines[1])
    /\ Unwrap(parse.lines[1].tag) = "user"
    /\ is_system_content(parse.lines[1].content)
    /\ parse.lines[2].content = Text(LongText)
    /\ parse.lines[3].content = Text(<<"B", "\n", "a">>)
    /\ Len(Unwrap(parse.session.first_message)) = 100
    /\ SubSeq(Unwrap(parse.session.first_message), 98, 100) = <<".", ".", ".">>

\* the text a record appends to the searchable accumulator: Summary texts and
\* the flattened texts of User and Assistant records (nothing when empty)
AppendedText(line) ==
    IF Skipped(line) THEN <<>>
    ELSE CASE Unwrap(line.tag) = "summary" -> line.text
           [] Unwrap(line.tag) = "user" -> MessageContent_as_text(line.content)
           [] Unwrap(line.tag) = "assistant" -> AssistantMessage_as_text(line.content)
           [] OTHER -> <<>>

RECURSIVE CharCount(_)
CharCount(lines) ==
    IF lines = <<>> THEN 0
    ELSE Len(AppendedText(Head(lines))) + CharCount(Tail(lines))

\* C22: after a scan token_count is the number of characters of all the text
\* appended to the searchable accumulator, divided by 4 (integer division),
\* also when the text has multi-byte characters.
C22_TokenCount ==
    (parse.status = "ok" /\ parse.fn = "metadata") =>
        parse.session.token_count = Some(CharCount(parse.lines) \div 4)

\* earlier values of the derived fields: those of Session::new and set ones
PriorSessions ==
    { Derived_new,
      [created |-> Some(9), summary |-> Some(<<"b">>),
       first_message |-> Some(<<"b">>), custom_title |-> Some(<<"b">>),
       message_count |-> Some(9), search_content |-> Some(<<"b">>),
       token_count |-> Some(9)] }

\* C23: a metadata scan overwrites and never merges: the derived fields after
\* load_session_metadata are the same whatever the fields were before, a
\* second scan of the unchanged file changes nothing, and a field the file
\* does not give is unset even if it was set before.
C23_Overwrites ==
    (parse.status = "ok" /\ parse.fn = "metadata") =>
        \A prior \in PriorSessions :
            LET acc == metadata_loop(Acc_new, parse.lines)
                once == store_metadata(prior, acc)
                twice == store_metadata(once, acc)
                tags == {parse.lines[k].tag : k \in
                            {j \in 1..Len(parse.lines) : ~Skipped(parse.lines[j])}}
            IN /\ once = parse.session
               /\ twice = once
               /\ Some("summary") \notin tags => once.summary = None
               /\ Some("custom-title") \notin tags => once.custom_title = None
               /\ Some("user") \notin tags =>
                     once.created = None /\ once.first_message = None

\* a scanned file with one message and neither summary, title nor User record
C23_Witness ==
    /\ parse.status = "ok"
    /\ parse.fn = "metadata"
    /\ parse.session.message_count = Some(1)
    /\ parse.session.summary = None
    /\ parse.session.custom_title = None
    /\ parse.session.first_message = None
    /\ parse.session.created = None
    /\ parse.session.search_content = Some(<<"a", "\n", "b">>)

\* ------------------------------------------------------- failing scans
\* File::open fails on the file of session s
CannotOpen(s) == s.path \notin disk \/ ~FileReadable(s.path)

\* The sessions of a running interface (pc = "loop") have all been scanned,
\* at start-up or by a refresh, and a scan that succeeds sets search_content:
\* the session under the cursor of st is one whose scan failed
FailedUnderCursor(st) ==
    /\ IsSome(current_session(st))
    /\ Unwrap(current_session(st)).search_content = None

\* C24: a metadata scan that failed because the file cannot be opened is not
\* retried: no cursor movement scans that session again. (load_current_metadata
\* scans the session under the cursor whenever its first_message is unset,
\* which it is after a failed scan.)
C24_NoRetry ==
    [][\/ ~FailedUnderCursor(state')
       \/ ~(ListKeyDown \/ ListKeyUp)]_vars

\* a step of the interface in which a scan or another file operation fails
ScanFailure ==
    \/ /\ LoadAllMetadata
       /\ \E k \in 1..Len(state.sessions) :
             state.sessions[k].first_message = None /\ CannotOpen(state.sessions[k])
    \/ (ListKeyDown \/ ListKeyUp) /\ FailedUnderCursor(state')
    \/ ListKeyRefresh /\ \E q \in disk : ~FileReadable(q)
    \/ ListKeyRefreshFailed
    \/ /\ ListKeyEnter
       /\ IsSome(current_session(state))
       /\ CannotOpen(Unwrap(current_session(state)))

\* C25: every scan or I/O failure met by the interface (a metadata scan at
\* start-up, on cursor movement or during a refresh, the opening of a preview,
\* a refresh rescan) leaves a status message set.
C25_FailureReported ==
    [][IsSome(state'.status_message) \/ ~ScanFailure]_vars

\* ------------------------------------------------- messages of a file
\* what a line gives to the display: one message for a User record whose
\* content is not empty and not system content, for an Assistant record whose
\* flattened text is not empty and for a System record with a timestamp
Displayed(line) ==
    IF Skipped(line) THEN <<>>
    ELSE CASE Unwrap(line.tag) = "user"
                /\ MessageContent_as_text(line.content) # <<>>
                /\ ~is_system_content(line.content) ->
                  << [role |-> "User", timestamp |-> Unwrap(line.timestamp),
                      content |-> MessageContent_as_text(line.content)] >>
           [] Unwrap(line.tag) = "assistant"
                /\ AssistantMessage_as_text(line.content) # <<>> ->
                  << [role |-> "Assistant", timestamp |-> Unwrap(line.timestamp),
                      content |-> AssistantMessage_as_text(line.content)] >>
           [] Unwrap(line.tag) = "system" /\ IsSome(line.timestamp) ->
                  << [role |-> "System", timestamp |-> Unwrap(line.timestamp),
                      content |-> <<"[", "S", "y", "s", "t", "e", "m", "]">>] >>
           [] OTHER -> <<>>

RECURSIVE DisplayedAll(_)
DisplayedAll(lines) ==
    IF lines = <<>> THEN <<>>
    ELSE Displayed(Head(lines)) \o DisplayedAll(Tail(lines))

\* C26: load_session_messages gives, in file order, exactly one message for
\* each User record with content that is not empty and not system content,
\* each Assistant record with non-empty flattened text and each System record
\* with a timestamp (text "[System]"), and nothing for any other record.
C26_MessagesExact ==
    (parse.fn = "messages" /\ parse.status \in {"reading", "ok"}) =>
        parse.messages = DisplayedAll(SubSeq(parse.lines, 1, parse.pos))

\* a file of a System, an Assistant and a User record shown in that order
C26_Witness ==
    /\ parse.fn = "messages"
    /\ parse.status = "ok"
    /\ Len(parse.lines) = 3
    /\ Len(parse.messages) = 3
    /\ parse.messages[1].role = "System"
    /\ parse.messages[2].role = "Assistant"
    /\ parse.messages[3].role = "User"

\* ------------------------------------------------ functions on their own
\* text starts with a tag of the list, written as listed, in upper case or
\* in lower case
StartsWithTag(text) ==
    \E k \in 1..Len(SYSTEM_TAGS) :
        \/ starts_with(text, SYSTEM_TAGS[k])
        \/ starts_with(text, to_uppercase(SYSTEM_TAGS[k]))
        \/ starts_with(text, to_lowercase(SYSTEM_TAGS[k]))

\* C27: is_system_content is case-insensitive for every known prefix: content
\* whose text starts with a tag of the list, written as listed, all upper or
\* all lower case, is system content.
C27_CaseInsensitive ==
    (/\ call.fn = "is_system_content"
     /\ call.done
     /\ StartsWithTag(MessageContent_as_text(call.arg))) => call.result = TRUE

EndsInEllipsis(s) ==
    Len(s) >= 3 /\ SubSeq(s, Len(s) - 2, Len(s)) = <<".", ".", ".">>

TruncateCall == call.done /\ call.fn \in {"truncate_message", "truncate_result"}

\* C28 as stated: for truncate_result and truncate_message, any string s and
\* any limit n, the result has exactly n characters and ends in "..." when
\* n < char_count(s), and is s unchanged otherwise.
C28_TruncationLaw ==
    TruncateCall =>
        IF call.arg.max_chars < Len(call.arg.s)
        THEN Len(call.result) = call.arg.max_chars /\ EndsInEllipsis(call.result)
        ELSE call.result = call.arg.s

\* C28 amended: truncate_message first removes the white space around s and
\* turns its newlines into spaces, and the law holds for what is left;
\* truncate_result takes s as it is. A result that is cut keeps the first
\* n - 3 characters (none when n < 3) and ends in "...": it has exactly n
\* characters when n >= 3, and 3 when n < 3.
C28_TruncationLawAmended ==
    TruncateCall =>
        LET s == IF call.fn = "truncate_message" THEN Flat(call.arg.s)
                 ELSE call.arg.s
            n == call.arg.max_chars
        IN IF n < Len(s)
           THEN /\ call.result = SubSeq(s, 1, Max(n - 3, 0)) \o <<".", ".", ".">>
                /\ EndsInEllipsis(call.result)
                /\ Len(call.result) = Max(n, 3)
           ELSE call.result = s

\* truncate_message cuts a string of 5 characters with a newline to 4
C28_Witness ==
    /\ TruncateCall
    /\ call.fn = "truncate_message"
    /\ call.arg.max_chars = 4
    /\ call.arg.s = <<"a", "\n", "a", "a", "a">>
    /\ call.result = <<"a", ".", ".", ".">>

\* s cut to n characters as a preview label is
Clip(s, n) ==
    IF Len(Flat(s)) <= n THEN Flat(s)
    ELSE SubSeq(Flat(s), 1, n - 3) \o <<".", ".", ".">>

\* C29: get_session_preview is the truncated custom_title when that is set;
\* else first_message when set, even if summary is set; else summary; else
\* "[n message]" / "[n messages]" when message_count > 0; else the session id
\* in brackets, cut to 12 characters and "..." when it has more.
C29_PreviewPriority ==
    (call.fn = "get_session_preview" /\ call.done) =>
        call.result =
            IF IsSome(call.arg.custom_title)
            THEN Clip(Unwrap(call.arg.custom_title), 50)
            ELSE IF IsSome(call.arg.first_message)
            THEN Clip(Unwrap(call.arg.first_message), 50)
            ELSE IF IsSome(call.arg.summary)
            THEN Clip(Unwrap(call.arg.summary), 50)
            ELSE IF IsSome(call.arg.message_count)
                    /\ Unwrap(call.arg.message_count) > 0
            THEN <<"[">> \o usize_to_string(Unwrap(call.arg.message_count))
                    \o (IF Unwrap(call.arg.message_count) = 1
                        THEN <<" ", "m", "e", "s", "s", "a", "g", "e", "]">>
                        ELSE <<" ", "m", "e", "s", "s", "a", "g", "e", "s", "]">>)
            ELSE IF Len(call.arg.id) > 12
            THEN <<"[">> \o SubSeq(call.arg.id, 1, 12) \o <<".", ".", ".", "]">>
            ELSE <<"[">> \o call.arg.id \o <<"]">>

\* the string held by the first of the keys command, pattern, file_path that
\* holds a string
FirstString(input) ==
    LET held(key) == IF input = None \/ Value_get(Unwrap(input), key) = None
                     THEN None
                     ELSE Value_as_str(Unwrap(Value_get(Unwrap(input), key)))
    IN Option_or(Option_or(held("command"), held("pattern")), held("file_path"))

\* C30: the input preview of a ToolUse block is empty unless one of the keys
\* command, pattern, file_path holds a string; when one does, it is the string
\* of the first such key in that order, in quotes, cut to 57 characters and
\* "..." when it has more than 60.
C30_ToolPreview ==
    (call.fn = "as_text" /\ call.done /\ call.arg.type = "tool_use") =>
        LET str == FirstString(call.arg.input)
            shown == IF str = None THEN <<>>
                     ELSE IF Len(Unwrap(str)) > 60
                     THEN <<" ", "\"">> \o SubSeq(Unwrap(str), 1, 57)
                              \o <<".", ".", ".", "\"">>
                     ELSE <<" ", "\"">> \o Unwrap(str) \o <<"\"">>
        IN call.result = Some(<<Wrench, " ">> \o call.arg.name \o shown)

\* the claimed summary of a tool result payload; texts are the string text
\* fields of the elements of an array payload, nonempty tells whether an
\* array without such a field still counts as an array of objects
IsObject(v) == v.json = "object"

TextsOf(content) ==
    LET str(i) == Value_as_str(Unwrap(Value_get(content.items[i], "text")))
        has(i) == /\ Value_get(content.items[i], "text") # None
                  /\ str(i) # None
        RECURSIVE from(_)
        from(i) == IF i > Len(content.items) THEN <<>>
                   ELSE (IF has(i) THEN <<Unwrap(str(i))>> ELSE <<>>)
                            \o from(i + 1)
    IN from(1)

Summary200(s) ==
    IF Len(s) <= 200 THEN s ELSE SubSeq(s, 1, 197) \o <<".", ".", ".">>

ToolResultCall == call.fn = "as_text" /\ call.done /\ call.arg.type = "tool_result"

\* C31: the summary of a ToolResult block is, for a payload that is an array
\* of objects, the newline-join of the string text fields of its elements cut
\* to 200 characters; for a bare string that string cut the same way; and
\* "(result)" only for a payload that is neither.
C31_ToolResult ==
    ToolResultCall =>
        LET content == call.arg.content
            summary ==
                IF content.json = "array"
                      /\ \A i \in 1..Len(content.items) : IsObject(content.items[i])
                THEN Summary200(join(TextsOf(content), <<"\n">>))
                ELSE IF content.json = "string" THEN Summary200(content.s)
                ELSE ResultFallback
        IN call.result = Some(<<Clipboard, " ">> \o summary)

\* C31 as the code has it: the summary is the cut newline-join of the string
\* text fields when the payload is an array with at least one element that
\* has a string text field (other elements, objects or not, are skipped);
\* the cut string when the payload is a bare string; and "(result)" for
\* every other payload, an array without any string text field included.
C31_ToolResultAmended ==
    ToolResultCall =>
        LET content == call.arg.content
            summary ==
                IF content.json = "array" /\ TextsOf(content) # <<>>
                THEN Summary200(join(TextsOf(content), <<"\n">>))
                ELSE IF content.json = "string" THEN Summary200(content.s)
                ELSE ResultFallback
        IN call.result = Some(<<Clipboard, " ">> \o summary)

\* an array of two objects, only the second with a string text, was
\* summarised as that text
C31_Witness ==
    /\ ToolResultCall
    /\ call.arg.content.json = "array"
    /\ Len(call.arg.content.items) = 2
    /\ IsObject(call.arg.content.items[1])
    /\ Value_get(call.arg.content.items[1], "text") = None
    /\ call.result = Some(<<Clipboard, " ", "r">>)

\* a session that has no custom title, no summary and no first message once
\* its file was scanned
Nameless(session, content) ==
    LET loaded == load_metadata_of(session, content[session.path].readable,
                                   content[session.path].lines)
    IN /\ loaded.custom_title = None
       /\ loaded.summary = None
       /\ loaded.first_message = None

PruneRun == call.fn = "prune_empty" /\ call.done

\* C32: --prune-empty selects exactly the scanned sessions without custom
\* title, summary and first message; with --dry-run it lists that set and
\* no file leaves the disk.
C32_PruneEmpty ==
    PruneRun =>
        /\ {call.result.selected[k].path : k \in 1..Len(call.result.selected)}
              = {call.arg.sessions[k].path : k \in
                    {j \in 1..Len(call.arg.sessions) :
                        Nameless(call.arg.sessions[j], call.arg.content)}}
        /\ call.arg.dry_run =>
              /\ call.result.listed = call.result.selected
              /\ disk = {call.arg.sessions[k].path : k \in 1..Len(call.arg.sessions)}

\* what the run does select: the sessions whose label is the text "(empty)"
\* because their title, first message or summary is that text; and a dry
\* run lists them and deletes nothing
PruneSelectsLabelled ==
    PruneRun =>
        /\ \A k \in 1..Len(call.result.selected) :
              ~Nameless(call.result.selected[k], call.arg.content)
        /\ call.arg.dry_run =>
              /\ call.result.listed = call.result.selected
              /\ disk = {call.arg.sessions[k].path : k \in 1..Len(call.arg.sessions)}

\* the sessions an action is to act on, by path: the selected ones, shown
\* or hidden, and without a selection the one under the cursor
Candidates(st) ==
    IF st.selected # {} THEN {st.sessions[i + 1].path : i \in st.selected}
    ELSE IF st.filtered_indices = <<>> THEN {}
    ELSE {st.sessions[st.filtered_indices[st.cursor + 1] + 1].path}

PathsOf(sessions) == {sessions[k].path : k \in 1..Len(sessions)}

DeleteSelectedStep ==
    /\ state.view = "Confirm"
    /\ state'.view = "List"
    /\ state.dialog_action = Some([kind |-> "DeleteSelected", days |-> 0])
    /\ IsSome(state'.status_message)

ExportStep == call' # call /\ call'.fn \in {"do_export", "do_archive"}

\* C33: delete, export and archive act on the selected sessions when there
\* are any, hidden ones included, and otherwise on the one session under the
\* cursor; no other session is acted on.
C33_Candidates ==
    [][/\ ~DeleteSelectedStep \/
            /\ PathsOf(state.sessions) \ PathsOf(state'.sessions) = Candidates(state)
            /\ disk \ disk' \subseteq Candidates(state)
            /\ disk' \cap Candidates(state) \subseteq {p \in Paths : ~FileDeletable(p)}
       /\ ~ExportStep \/
            /\ call'.arg = Candidates(state)
            /\ call'.result \subseteq Candidates(state)]_vars

\* an export was handed two selected sessions of which the filter hides one
C33_Witness ==
    /\ call.fn = "do_export"
    /\ Cardinality(call.arg) = 2
    /\ state.view = "List"
    /\ state.selected = {0, 1}
    /\ Len(state.filtered_indices) = 1
    /\ IsSome(state.status_message)

\* the count shown by the status line
Reported(st) == Unwrap(st.status_message).n

\* a confirmed delete, of the selection or by age
DeleteStep ==
    /\ state.view = "Confirm"
    /\ state'.view = "List"
    /\ IsSome(state'.status_message)

ExportReported ==
    /\ ExportStep
    /\ Unwrap(state'.status_message).kind \in {"Exported", "Archived"}

\* C34: the count reported after a delete, an export or an archive is the
\* number of sessions for which the action succeeded: the files removed, the
\* files written.
C34_SuccessCount ==
    [][/\ ~DeleteStep \/ Reported(state') = Cardinality(disk \ disk')
       /\ ~ExportReported \/ Reported(state') = Cardinality(call'.result)]_vars

\* what holds: export and archive report the number written, a delete
\* reports the number of sessions it called delete_session on
ReportsAttemptedDeletes ==
    [][/\ ~DeleteStep \/
            Reported(state') =
                Cardinality(PathsOf(state.sessions) \ PathsOf(state'.sessions))
       /\ ~ExportReported \/ Reported(state') = Cardinality(call'.result)]_vars

\* C35: a session leaves the collection only if its file was deleted: a
\* session whose file is still on disk after a confirmed delete is still in
\* the collection.
C35_RemovedOnlyIfDeleted ==
    [][~DeleteStep \/
          \A p \in PathsOf(state.sessions) :
              p \in disk' => p \in PathsOf(state'.sessions)]_vars

\* C36: the project filter is self-consistent in every reachable state:
\* project_filter_index is 0 and filter.project unset, or the index is
\* between 1 and len(projects) and filter.project is the project at it.
C36_ProjectFilterConsistent ==
    \/ state.project_filter_index = 0 /\ state.filter.project = None
    \/ /\ 1 <= state.project_filter_index
       /\ state.project_filter_index <= Len(state.projects)
       /\ state.filter.project = Some(state.projects[state.project_filter_index])

\* every step but a confirmed delete keeps the filter consistent
ConsistentBeforeRemoval ==
    [][(ConfirmKey \/ pc' = "panicked" \/ ~C36_ProjectFilterConsistent)
          \/ C36_ProjectFilterConsistent']_vars

DialogSet(st) == IsSome(st.dialog_action) /\ IsSome(st.dialog_message)

SessionLeaves ==
    \/ PathsOf(state.sessions) \ PathsOf(state'.sessions) # {}
    \/ disk' # disk

Dismissed ==
    /\ state.view = "Confirm" /\ state'.view = "List"
    /\ state'.status_message = None

\* C37: the Confirm view is shown exactly when a dialog action and message
\* are set; sessions leave the collection and files leave the disk only in
\* the step that accepts the dialog; dismissing it returns to the List view
\* with sessions, selected, filtered_indices and cursor unchanged.
C37_ConfirmedOnly ==
    /\ [](state.view = "Confirm" <=> DialogSet(state))
    /\ [][/\ ~SessionLeaves \/ ConfirmKeyYes
          /\ ~Dismissed \/
               /\ ~DialogSet(state')
               /\ state'.sessions = state.sessions
               /\ state'.selected = state.selected
               /\ state'.filtered_indices = state.filtered_indices
               /\ state'.cursor = state.cursor]_vars

\* a dialog over a selection of two is pending
C37_Witness ==
    /\ state.view = "Confirm"
    /\ DialogSet(state)
    /\ Cardinality(state.selected) = 2
    /\ Unwrap(state.dialog_message) = Status("Delete?", 2)

\* C38: the row selected in table_state is the cursor after every handled
\* key or mouse event in the List, Search and Confirm views.
C38_TableFollowsCursor == table_state = state.cursor

\* the steps that can part the two: a query edit, the project filter and a
\* confirmed delete, which clamp the cursor in apply_filters and do not
\* select the row
TableFollowsOutsideFilters ==
    [][(table_state' = state'.cursor) \/ ~C38_TableFollowsCursor
          \/ SearchKey \/ ListKeyProject \/ ConfirmKeyYes]_vars

\* a session that is at least days whole days old at time t
OldAt(session, days, t) == t - session.modified >= days * DayLen

DeleteOlderStep ==
    /\ state.view = "Confirm"
    /\ state'.view = "List"
    /\ state.dialog_action = Some([kind |-> "DeleteOlderThan", days |-> 30])
    /\ IsSome(state'.status_message)

\* C39: a confirmed "delete older than N days" removes from the whole
\* collection exactly the sessions that are at least N whole days old,
\* sessions hidden by the query or the project filter included, and keeps
\* every younger session, in order.
C39_DeleteOlder ==
    [][~DeleteOlderStep \/
          /\ state'.sessions = SelectSeq(state.sessions,
                                         LAMBDA x : ~OldAt(x, 30, now))
          /\ disk \ disk' \subseteq
                {x.path : x \in {y \in Range(state.sessions) : OldAt(y, 30, now)}}
          /\ \A x \in Range(state.sessions) :
                (OldAt(x, 30, now) /\ FileDeletable(x.path)) => x.path \notin disk']_vars

\* an old session of project "Ab" was removed while the project filter showed
\* project "a" only
C39_Witness ==
    /\ state.status_message = Some(Status("Deleted older", 1))
    /\ state.filter.project = Some(<<"a">>)
    /\ Len(state.sessions) = 1
    /\ state.sessions[1].project = <<"a">>

\* C40: the preview search state fits the preview buffer: every match is a
\* line index of preview_lines, the matches are strictly ascending, and
\* preview_match_index is below the number of matches, or 0 when there are
\* none.
C40_PreviewSearchConsistent ==
    /\ \A k \in 1..Len(preview.preview_matches) :
          /\ 0 <= preview.preview_matches[k]
          /\ preview.preview_matches[k] < Len(preview.preview_lines)
    /\ \A k \in 1..(Len(preview.preview_matches) - 1) :
          preview.preview_matches[k] < preview.preview_matches[k + 1]
    /\ \/ preview.preview_match_index < Len(preview.preview_matches)
       \/ preview.preview_matches = <<>> /\ preview.preview_match_index = 0

\* the last of several matches is the current one and the search is being
\* edited again
C40_Witness ==
    /\ state.view = "Preview"
    /\ preview.preview_search_active
    /\ Len(preview.preview_matches) >= 2
    /\ preview.preview_match_index = Len(preview.preview_matches) - 1

====
